---- MODULE Spec2Model ----
(***************************************************************************)
(* Model of the prescription text-to-entity pipeline                       *)
(*   Backend/src/parsers/prescription_parser.py  (clean_ocr_text,          *)
(*                                                PrescriptionParser)      *)
(*   Backend/src/models/patient_details.py       (PatientDetails,          *)
(*                                                PatientDetailsModel)     *)
(*   Backend/src/parsers/doc_extractor.py        (DocumentExtractor)       *)
(*                                                                         *)
(* Texts are TLA+ strings; a character is a string of length 1.  The       *)
(* regular expressions of the source are kept as data (one definition per  *)
(* pattern) and run by a backtracking matcher with the semantics of        *)
(* Python's re module: leftmost match, alternatives and quantifiers tried  *)
(* in priority order.                                                      *)
(***************************************************************************)
EXTENDS Integers, Sequences, FiniteSets, TLC

VARIABLES
    input,      \* the argument the caller supplies (raw text, date string, mapping)
    parser,     \* the PrescriptionParser instance: [raw, text, lines], or NoObject
    patient,    \* the PatientDetails instance, or NoObject
    warnings,   \* DocumentExtractor.warnings
    call,       \* the operation that ran last
    ret,        \* what it returned (or the exception it raised)
    threads,    \* the extract_from_text invocations in progress, one record each
    heap,       \* the DocumentExtractor instances and the list objects they refer to
    request     \* the /extract request in progress: the handler's position and locals

vars == <<input, parser, patient, warnings, call, ret, threads, heap, request>>

(***************************************************************************)
(* Python values                                                           *)
(***************************************************************************)
\* Optional[str]: None is the empty tuple, a string s is <<s>>
None == <<>>
Some(s) == <<s>>
NoObject == [object |-> FALSE]
\* an exception leaving a call
Raised(e) == [raised |-> e]
Exceptions == {"ValueError", "TypeError", "AttributeError", "ImportError", "RuntimeError"}
IsRaised(v) == v \in {Raised(e) : e \in Exceptions}
\* a Python object of any type: an int, a str, None, or bytes
PyInt(n) == [kind |-> "int", n |-> n, s |-> ""]
PyStr(s) == [kind |-> "str", n |-> 0, s |-> s]
PyNone == [kind |-> "none", n |-> 0, s |-> ""]
PyBytes(s) == [kind |-> "bytes", n |-> 0, s |-> s]
\* bool(v)
truthy(v) ==
    CASE v.kind = "int" -> v.n # 0
      [] v.kind = "none" -> FALSE
      [] OTHER -> v.s # ""
\* a or b
or(a, b) == IF truthy(a) THEN a ELSE b
\* a or b  for Optional[str]
or_str(a, b) == IF a # None /\ a[1] # "" THEN a ELSE b

(***************************************************************************)
(* Characters and str methods                                              *)
(***************************************************************************)
Ch(s, i) == SubSeq(s, i, i)
CharsOf(s) == {Ch(s, i) : i \in 1..Len(s)}

UpperChars == "ABCDEFGHIJKLMNOPQRSTUVWXYZ"
LowerChars == "abcdefghijklmnopqrstuvwxyz"
DigitChars == "0123456789"
UPPER == CharsOf(UpperChars)
LOWER == CharsOf(LowerChars)
DIGIT == CharsOf(DigitChars)
ALPHA == UPPER \cup LOWER
\* the word characters without the underscore
WORDCH_without_underscore == ALPHA \cup DIGIT
WORDCH == ALPHA \cup DIGIT \cup {"_"}
\* \s and str.strip(): the whitespace of the character universe
SPACE == {" ", "\t", "\n", "\r", "\f"}
\* \x20-\x7E (the backquote cannot be written in a TLA+ string and is left
\* out of the character universe)
PunctChars == " !\"#$%&'()*+,-./:;<=>?@[\\]^_{|}~"
PRINTABLE == ALPHA \cup DIGIT \cup CharsOf(PunctChars)

IndexIn(c, s) == CHOOSE i \in 1..Len(s) : Ch(s, i) = c
LowerMap == [c \in UPPER |-> Ch(LowerChars, IndexIn(c, UpperChars))]
UpperMap == [c \in LOWER |-> Ch(UpperChars, IndexIn(c, LowerChars))]
DigitMap == [c \in DIGIT |-> IndexIn(c, DigitChars) - 1]
lowerc(c) == IF c \in UPPER THEN LowerMap[c] ELSE c
upperc(c) == IF c \in LOWER THEN UpperMap[c] ELSE c

\* a local name: F applied to the value x it is bound to
Let(x, F(_)) == F(x)

\* f(lo) \o ... \o f(hi) for strings, the range halved at each step
RECURSIVE ConcatOver(_, _, _)
ConcatOver(f(_), lo, hi) ==
    IF lo > hi THEN ""
    ELSE IF lo = hi THEN f(lo)
    ELSE ConcatOver(f, lo, (lo + hi) \div 2) \o ConcatOver(f, (lo + hi) \div 2 + 1, hi)
\* the same for sequences
RECURSIVE FlatOver(_, _, _)
FlatOver(f(_), lo, hi) ==
    IF lo > hi THEN <<>>
    ELSE IF lo = hi THEN f(lo)
    ELSE FlatOver(f, lo, (lo + hi) \div 2) \o FlatOver(f, (lo + hi) \div 2 + 1, hi)
\* the k-th smallest element of a set of numbers
Nth(P, k) == CHOOSE i \in P : Cardinality({j \in P : j < i}) = k - 1

lower(s) == ConcatOver(LAMBDA i : lowerc(Ch(s, i)), 1, Len(s))

\* s.lstrip(cs), s.rstrip(cs)
lstrip(s, cs) ==
    SubSeq(s, CHOOSE q \in 1..(Len(s) + 1) :
                  /\ q <= Len(s) => Ch(s, q) \notin cs
                  /\ \A k \in 1..(q - 1) : Ch(s, k) \in cs,
           Len(s))
rstrip(s, cs) ==
    SubSeq(s, 1, Len(s) - (CHOOSE d \in 0..Len(s) :
                               /\ d < Len(s) => Ch(s, Len(s) - d) \notin cs
                               /\ \A k \in (Len(s) - d + 1)..Len(s) : Ch(s, k) \in cs))
strip(s) == rstrip(lstrip(s, SPACE), SPACE)
stripc(s, cs) == rstrip(lstrip(s, cs), cs)

startswith(s, p) == Len(s) >= Len(p) /\ SubSeq(s, 1, Len(p)) = p

\* a occurs in s at position i
OccursAt(s, a, i) == i >= 1 /\ i + Len(a) - 1 <= Len(s) /\ SubSeq(s, i, i + Len(a) - 1) = a
\* s.replace(a, b) for a non-empty a that cannot overlap itself
replace(s, a, b) ==
    ConcatOver(LAMBDA i : IF OccursAt(s, a, i) THEN b
                          ELSE IF \E j \in (i - Len(a) + 1)..(i - 1) : OccursAt(s, a, j)
                               THEN ""
                          ELSE Ch(s, i),
               1, Len(s))

\* [f(x) for x in xs]
MapSeq(f(_), xs) == [i \in 1..Len(xs) |-> f(xs[i])]

\* the pieces of s that the positions P cut out
PiecesAt(s, P) ==
    [k \in 1..(Cardinality(P) + 1) |->
        SubSeq(s, IF k = 1 THEN 1 ELSE Nth(P, k - 1) + 1,
                  IF k = Cardinality(P) + 1 THEN Len(s) ELSE Nth(P, k) - 1)]
\* s.split(sep) for a single character sep: the pieces, empty ones included
split(s, sep) == PiecesAt(s, {i \in 1..Len(s) : Ch(s, i) = sep})

\* the word of s that starts at position i
WordAt(s, i) ==
    SubSeq(s, i, CHOOSE j \in i..Len(s) :
                     /\ j < Len(s) => Ch(s, j + 1) \in SPACE
                     /\ \A k \in i..j : Ch(s, k) \notin SPACE)
\* the words that start at the positions W
WordsAt(s, W) == [k \in 1..Cardinality(W) |-> WordAt(s, Nth(W, k))]
\* s.split(): the maximal runs of non-whitespace
split_ws(s) ==
    WordsAt(s, {i \in 1..Len(s) :
                    Ch(s, i) \notin SPACE /\ (i = 1 \/ Ch(s, i - 1) \in SPACE)})

\* sep.join(parts)
join(sep, parts) ==
    ConcatOver(LAMBDA i : IF i = 1 THEN parts[1] ELSE sep \o parts[i], 1, Len(parts))

\* int(s) for a string of decimal digits
RECURSIVE int_digits(_, _)
int_digits(s, acc) ==
    IF s = "" THEN acc ELSE int_digits(Tail(s), 10 * acc + DigitMap[Ch(s, 1)])

(***************************************************************************)
(* Regular expressions (Python re)                                         *)
(***************************************************************************)
Set(cs) == [k |-> "set", s |-> cs, neg |-> FALSE]
NotSet(cs) == [k |-> "set", s |-> cs, neg |-> TRUE]
Lit(str) == [k |-> "lit", s |-> str]
Dot == [k |-> "any"]
Cat(a) == [k |-> "cat", a |-> a]
Alt(a) == [k |-> "alt", a |-> a]
Rep(r, lo, hi) == [k |-> "rep", r |-> r, lo |-> lo, hi |-> hi, lazy |-> FALSE]
RepLazy(r, lo, hi) == [k |-> "rep", r |-> r, lo |-> lo, hi |-> hi, lazy |-> TRUE]
Grp(n, r) == [k |-> "grp", n |-> n, r |-> r]
Ahead(r) == [k |-> "la", r |-> r]
Behind(r) == [k |-> "lb", r |-> r]
WordB == [k |-> "wb"]
Bol == [k |-> "bol"]
Eol == [k |-> "eol"]
Unbounded == 1000
Star(r) == Rep(r, 0, Unbounded)
Plus(r) == Rep(r, 1, Unbounded)
Opt(r) == Rep(r, 0, 1)

NoGroups == <<<<0, 0>>, <<0, 0>>, <<0, 0>>>>

\* one character against a class, under re.I when ci
InClass(c, cs, ci) == c \in cs \/ (ci /\ (lowerc(c) \in cs \/ upperc(c) \in cs))
\* the character at position q is one that the set or the dot r takes
CharOK(r, t, ci, q) ==
    /\ q <= Len(t)
    /\ IF r.k = "any" THEN Ch(t, q) # "\n" ELSE InClass(Ch(t, q), r.s, ci) # r.neg
LitAt(t, p, s, ci) ==
    /\ p + Len(s) - 1 <= Len(t)
    /\ IF ci THEN lower(SubSeq(t, p, p + Len(s) - 1)) = lower(s)
       ELSE SubSeq(t, p, p + Len(s) - 1) = s
IsWordAt(t, p) == p >= 1 /\ p <= Len(t) /\ Ch(t, p) \in WORDCH

\* how many characters from position p on the repetition re of a set or of
\* the dot can take
RunLen(re, t, ci, p) ==
    CHOOSE k \in 0..re.hi :
        /\ k = re.hi \/ ~CharOK(re.r, t, ci, p + k)
        /\ \A j \in 0..(k - 1) : CharOK(re.r, t, ci, p + j)
\* the ends of such a repetition that took at most k characters: the
\* longest first, or the shortest first when it is lazy
RunEnds(re, st, k) ==
    IF k < re.lo THEN <<>>
    ELSE [i \in 1..(k - re.lo + 1) |->
             [st EXCEPT !.p = st.p + (IF re.lazy THEN re.lo + i - 1 ELSE k - i + 1)]]
\* the ends inner of a group n that started at position p
GroupEnds(n, p, inner) ==
    [i \in 1..Len(inner) |-> [inner[i] EXCEPT !.g[n] = <<p, inner[i].p>>]]

\* M(re, t, ci, st): the states in which re can end when started in st on
\* text t, in the matcher's priority order.  A state is the position of the
\* next character and the spans of the groups.
RECURSIVE M(_, _, _, _), MAll(_, _, _, _), MCat(_, _, _, _, _, _), MAlt(_, _, _, _, _, _),
          MRep(_, _, _, _, _), MRepMore(_, _, _, _, _, _)
MAll(re, t, ci, sts) == FlatOver(LAMBDA i : M(re, t, ci, sts[i]), 1, Len(sts))
MCat(a, lo, hi, t, ci, sts) ==
    IF sts = <<>> \/ lo > hi THEN sts
    ELSE IF lo = hi THEN MAll(a[lo], t, ci, sts)
    ELSE MCat(a, (lo + hi) \div 2 + 1, hi, t, ci,
              MCat(a, lo, (lo + hi) \div 2, t, ci, sts))
MAlt(a, lo, hi, t, ci, st) == FlatOver(LAMBDA i : M(a[i], t, ci, st), lo, hi)
MRepMore(re, t, ci, st, n, more) ==
    IF re.lazy
    THEN (IF n >= re.lo THEN <<st>> ELSE <<>>) \o more
    ELSE more \o (IF n >= re.lo THEN <<st>> ELSE <<>>)
MRep(re, t, ci, st, n) ==
    MRepMore(re, t, ci, st, n,
             IF n < re.hi
             THEN FlatOver(LAMBDA i : MRep(re, t, ci, M(re.r, t, ci, st)[i], n + 1),
                           1, Len(M(re.r, t, ci, st)))
             ELSE <<>>)
M(re, t, ci, st) ==
    CASE re.k \in {"set", "any"} ->
           IF CharOK(re, t, ci, st.p) THEN <<[st EXCEPT !.p = st.p + 1]>> ELSE <<>>
      [] re.k = "lit" ->
           IF LitAt(t, st.p, re.s, ci)
           THEN <<[st EXCEPT !.p = st.p + Len(re.s)]>> ELSE <<>>
      [] re.k = "cat" -> MCat(re.a, 1, Len(re.a), t, ci, <<st>>)
      [] re.k = "alt" -> MAlt(re.a, 1, Len(re.a), t, ci, st)
      [] re.k = "rep" ->
           IF re.r.k \in {"set", "any"}
           THEN RunEnds(re, st, RunLen(re, t, ci, st.p))
           ELSE MRep(re, t, ci, st, 0)
      [] re.k = "grp" -> GroupEnds(re.n, st.p, M(re.r, t, ci, st))
      [] re.k = "la" -> IF M(re.r, t, ci, st) # <<>> THEN <<st>> ELSE <<>>
      [] re.k = "lb" ->
           IF st.p > 1 /\ M(re.r, t, ci, [st EXCEPT !.p = st.p - 1]) # <<>>
           THEN <<st>> ELSE <<>>
      [] re.k = "wb" ->
           IF IsWordAt(t, st.p - 1) # IsWordAt(t, st.p) THEN <<st>> ELSE <<>>
      [] re.k = "bol" -> IF st.p = 1 THEN <<st>> ELSE <<>>
      [] re.k = "eol" ->
           IF st.p = Len(t) + 1 \/ (st.p = Len(t) /\ Ch(t, st.p) = "\n")
           THEN <<st>> ELSE <<>>

NoMatch == [ok |-> FALSE, s |-> 0, e |-> 0, g |-> NoGroups]

\* the match that starts at p and ends as the first of the end states r
MatchOf(p, r) ==
    IF r = <<>> THEN NoMatch ELSE [ok |-> TRUE, s |-> p, e |-> r[1].p, g |-> r[1].g]
\* pattern.match at position p
MatchAt(re, t, ci, p) == MatchOf(p, M(re, t, ci, [p |-> p, g |-> NoGroups]))

\* the match at the first of the positions lo..hi that has one
RECURSIVE FirstMatch(_, _, _, _, _), OrMatch(_, _, _, _, _, _)
OrMatch(m, re, t, ci, lo, hi) == IF m.ok THEN m ELSE FirstMatch(re, t, ci, lo, hi)
FirstMatch(re, t, ci, lo, hi) ==
    IF lo > hi THEN NoMatch
    ELSE IF lo = hi THEN MatchAt(re, t, ci, lo)
    ELSE OrMatch(FirstMatch(re, t, ci, lo, (lo + hi) \div 2),
                 re, t, ci, (lo + hi) \div 2 + 1, hi)
\* re.search(pattern, t) from position p on: the leftmost match
SearchFrom(re, t, ci, p) == FirstMatch(re, t, ci, p, Len(t) + 1)
Search(re, t, ci) == SearchFrom(re, t, ci, 1)

\* m.group(n); group 0 is the whole match
Group(t, m, n) ==
    IF n = 0 THEN SubSeq(t, m.s, m.e - 1)
    ELSE SubSeq(t, m.g[n][1], m.g[n][2] - 1)

\* a replacement template: items [grp, lit], group grp (0: none) then lit
RECURSIVE Expand(_, _, _)
Expand(tpl, t, m) ==
    IF tpl = <<>> THEN ""
    ELSE (IF tpl[1].grp = 0 THEN "" ELSE Group(t, m, tpl[1].grp))
         \o tpl[1].lit \o Expand(Tail(tpl), t, m)

\* re.sub(pattern, template, t): every non-overlapping match, left to right
RECURSIVE SubFrom(_, _, _, _, _), SubAt(_, _, _, _, _, _)
SubAt(m, re, tpl, t, ci, p) ==
    IF ~m.ok THEN SubSeq(t, p, Len(t))
    ELSE IF m.e > m.s
         THEN SubSeq(t, p, m.s - 1) \o Expand(tpl, t, m) \o SubFrom(re, tpl, t, ci, m.e)
    ELSE SubSeq(t, p, m.s - 1) \o Expand(tpl, t, m)
         \o (IF m.s <= Len(t)
             THEN Ch(t, m.s) \o SubFrom(re, tpl, t, ci, m.s + 1) ELSE "")
SubFrom(re, tpl, t, ci, p) == SubAt(SearchFrom(re, t, ci, p), re, tpl, t, ci, p)
Sub(re, tpl, t, ci) == SubFrom(re, tpl, t, ci, 1)
Empty == <<>>
Text(s) == <<[grp |-> 0, lit |-> s]>>

\* the shared  re.sub(r'\s+', ' ', s)
RE_SPACES == Plus(Set(SPACE))
collapse_ws(s) == Sub(RE_SPACES, Text(" "), s, FALSE)

(***************************************************************************)
(* clean_ocr_text                                                          *)
(***************************************************************************)
\* [^\x09\x0A\x0D\x20-\x7E]
RE_NONPRINTABLE == NotSet(PRINTABLE \cup {"\t", "\n", "\r"})
\* \n{2,}
RE_BLANK_LINES == Rep(Set({"\n"}), 2, Unbounded)
\* (\d+)\s+(me|m g|mgm)\b   re.I
RE_UNIT_MISREAD ==
    Cat(<<Grp(1, Plus(Set(DIGIT))), Plus(Set(SPACE)),
          Grp(2, Alt(<<Lit("me"), Lit("m g"), Lit("mgm")>>)), WordB>>)
\* (?<=\s)[A-Za-z](?=\s)
RE_LONE_LETTER == Cat(<<Behind(Set(SPACE)), Set(ALPHA), Ahead(Set(SPACE))>>)

\* [ln.strip() for ln in text.split('\n') if ln.strip()]
stripped_lines(text) ==
    SelectSeq(MapSeq(strip, split(text, "\n")), LAMBDA ln : ln # "")

\* the body of the loop over the lines
fix_line(ln) ==
    strip(collapse_ws(
        Sub(RE_LONE_LETTER, Text(" "),
            Sub(RE_UNIT_MISREAD, <<[grp |-> 1, lit |-> " mg"]>>, ln, TRUE), FALSE)))

\* The typographic dashes of line 13 are outside the character universe of
\* the model (ASCII and form feed), on which that line changes nothing.
clean_ocr_text(raw) ==
    IF raw = "" THEN ""
    ELSE Let(stripped_lines(
                 Sub(RE_BLANK_LINES, Text("\n"),
                     Sub(RE_NONPRINTABLE, Text(" "),
                         replace(replace(raw, "\r\n", "\n"), "\r", "\n"), FALSE),
                     FALSE)),
             LAMBDA lines :
                 IF lines = <<>> THEN "" ELSE join("\n", MapSeq(fix_line, lines)))

(***************************************************************************)
(* PrescriptionParser                                                      *)
(***************************************************************************)
\* __init__(text): self.raw = text or "".  clean_ocr_text calls raw.replace
\* on a truthy raw, which raises for an object that is not a str: TypeError
\* for bytes (str arguments), AttributeError for an int.
PrescriptionParser(text) ==
    Let(IF truthy(text) THEN text ELSE PyStr(""),
        LAMBDA raw :
            IF raw.kind = "bytes" THEN Raised("TypeError")
            ELSE IF raw.kind = "int" THEN Raised("AttributeError")
            ELSE Let(clean_ocr_text(raw.s),
                     LAMBDA cleaned : [raw   |-> raw.s,
                                       text  |-> cleaned,
                                       lines |-> stripped_lines(cleaned)]))

\* _REFILL_RE whose group takes one digit
REFILL_RE_one_digit ==
    Cat(<<WordB, Lit("Refill"), Opt(Set({"s"})), Star(Set(SPACE)),
          Opt(Set({":", "-"})), Star(Set(SPACE)), Grp(1, Set(DIGIT))>>)
\* \bRefill[s]?\s*[:\-]?\s*([0-9]+)   re.I
_REFILL_RE ==
    Cat(<<WordB, Lit("Refill"), Opt(Set({"s"})), Star(Set(SPACE)),
          Opt(Set({":", "-"})), Star(Set(SPACE)), Grp(1, Plus(Set(DIGIT)))>>)

get_refills(self) ==
    Let(Search(_REFILL_RE, self.text, TRUE),
        LAMBDA m : IF m.ok THEN int_digits(Group(self.text, m, 1), 0) ELSE 0)

\* \b(?:Dr\.?|Doctor|Physician)[:\s\-]*([A-Z][A-Za-z\.\'\- ]{1,60})   re.I
RE_DOCTOR ==
    Cat(<<WordB,
          Alt(<<Cat(<<Lit("Dr"), Opt(Set({"."}))>>), Lit("Doctor"), Lit("Physician")>>),
          Star(Set(SPACE \cup {":", "-"})),
          Grp(1, Cat(<<Set(UPPER), Rep(Set(ALPHA \cup {".", "'", "-", " "}), 1, 60)>>))>>)
\* \b(?:Patient|Name)[:;\-\s]*([A-Z][A-Za-z\.\'\-\s]{1,60}?)(?=\s+Date\b|$|\n)   re.I
RE_PATIENT ==
    Cat(<<WordB, Alt(<<Lit("Patient"), Lit("Name")>>),
          Star(Set(SPACE \cup {":", ";", "-"})),
          Grp(1, Cat(<<Set(UPPER),
                       RepLazy(Set(ALPHA \cup {".", "'", "-"} \cup SPACE), 1, 60)>>)),
          Ahead(Alt(<<Cat(<<Plus(Set(SPACE)), Lit("Date"), WordB>>),
                      Eol, Set({"\n"})>>))>>)
\* [,:;\|\-]+$
RE_TRAILING_PUNCT == Cat(<<Plus(Set({",", ":", ";", "|", "-"})), Eol>>)
\* [,:;\|]+$
RE_TRAILING_PUNCT_LINE == Cat(<<Plus(Set({",", ":", ";", "|"})), Eol>>)
\* \b(Address|Date|Phone|Dr|Physician|Directions|Refill|Amount|Page)\b   re.I
RE_RESERVED ==
    Cat(<<WordB,
          Alt(<<Lit("Address"), Lit("Date"), Lit("Phone"), Lit("Dr"), Lit("Physician"),
                Lit("Directions"), Lit("Refill"), Lit("Amount"), Lit("Page")>>),
          WordB>>)
\* ^(?:Name|Patient)[:;\-\s]*   re.I
RE_LABEL_PREFIX ==
    Cat(<<Bol, Alt(<<Lit("Name"), Lit("Patient")>>), Star(Set(SPACE \cup {":", ";", "-"}))>>)
\* ^[A-Z].*$: an uppercase letter, then anything
RE_NAME_WORD_any_tail == Cat(<<Bol, Set(UPPER), Star(Dot), Eol>>)
\* ^[A-Z][A-Za-z'\-\.]{1,}$
RE_NAME_WORD ==
    Cat(<<Bol, Set(UPPER), Plus(Set(ALPHA \cup {"'", "-", "."})), Eol>>)
\* \bName\b[^\nA-Za-z0-9]{0,6}([A-Z][A-Za-z\'\-]+(?:\s+[A-Z][A-Za-z\'\-]+){1,3})
RE_NAME_LOOSE ==
    Cat(<<WordB, Lit("Name"), WordB, Rep(NotSet({"\n"} \cup ALPHA \cup DIGIT), 0, 6),
          Grp(1, Cat(<<Set(UPPER), Plus(Set(ALPHA \cup {"'", "-"})),
                       Rep(Cat(<<Plus(Set(SPACE)), Set(UPPER),
                                 Plus(Set(ALPHA \cup {"'", "-"}))>>), 1, 3)>>))>>)

\* all(re.match(r"^[A-Z][A-Za-z'\-\.]{1,}$", w) for w in words)
all_name_words(words) ==
    \A i \in 1..Len(words) : MatchAt(RE_NAME_WORD, words[i], FALSE, 1).ok
\* 2 <= len(words) <= 4 and every word is a name word
is_name_line(words) == Len(words) >= 2 /\ Len(words) <= 4 /\ all_name_words(words)

\* the loop over self.lines of get_name: the first line that qualifies
RECURSIVE name_from_lines(_)
name_from_lines(lines) ==
    IF lines = <<>> THEN None
    ELSE IF Search(RE_RESERVED, Head(lines), TRUE).ok THEN name_from_lines(Tail(lines))
    ELSE Let(strip(Sub(RE_LABEL_PREFIX, Empty, Head(lines), TRUE)),
             LAMBDA ln_clean :
                 IF is_name_line(split_ws(ln_clean))
                 THEN Some(collapse_ws(strip(Sub(RE_TRAILING_PUNCT_LINE, Empty,
                                                 ln_clean, FALSE))))
                 ELSE name_from_lines(Tail(lines)))

\* the candidate of a label match: stripped, trailing punctuation removed,
\* whitespace collapsed
name_of(candidate) ==
    collapse_ws(strip(Sub(RE_TRAILING_PUNCT, Empty, strip(candidate), FALSE)))

\* the patient rules, which get_name also reaches with doctor=True when
\* the doctor pattern does not match
patient_rules(self) ==
    Let(Search(RE_PATIENT, self.text, TRUE),
        LAMBDA m :
            IF m.ok THEN Some(name_of(Group(self.text, m, 1)))
            ELSE Let(name_from_lines(self.lines),
                     LAMBDA ln :
                         IF ln # None THEN ln
                         ELSE Let(Search(RE_NAME_LOOSE, self.text, FALSE),
                                  LAMBDA m2 :
                                      IF m2.ok
                                      THEN Some(collapse_ws(strip(Group(self.text, m2, 1))))
                                      ELSE None)))

get_name(self, doctor) ==
    IF doctor
    THEN Let(Search(RE_DOCTOR, self.text, TRUE),
             LAMBDA m : IF m.ok THEN Some(name_of(Group(self.text, m, 1)))
                        ELSE patient_rules(self))
    ELSE patient_rules(self)

\* Jan|Feb|Mar|Apr|May|Jun|Jul|Aug|Sep|Oct|Nov|Dec
MonthAbbr == <<"Jan", "Feb", "Mar", "Apr", "May", "Jun",
               "Jul", "Aug", "Sep", "Oct", "Nov", "Dec">>
RE_MONTH == Alt(MapSeq(Lit, MonthAbbr))
\* (?P<d>(?:\b\d{1,2}[\/\-]\d{1,2}[\/\-]\d{2,4}\b)
\*      |(?:\b\d{1,2}\s+(?:Jan|...|Dec)[a-z]*\s+\d{2,4}\b)
\*      |(?:\b(?:Jan|...|Dec)[a-z]*\s+\d{1,2},?\s+\d{4}\b))   re.I
_DATE_RE ==
    Grp(1, Alt(<<
        Cat(<<WordB, Rep(Set(DIGIT), 1, 2), Set({"/", "-"}), Rep(Set(DIGIT), 1, 2),
              Set({"/", "-"}), Rep(Set(DIGIT), 2, 4), WordB>>),
        Cat(<<WordB, Rep(Set(DIGIT), 1, 2), Plus(Set(SPACE)), RE_MONTH, Star(Set(LOWER)),
              Plus(Set(SPACE)), Rep(Set(DIGIT), 2, 4), WordB>>),
        Cat(<<WordB, RE_MONTH, Star(Set(LOWER)), Plus(Set(SPACE)), Rep(Set(DIGIT), 1, 2),
              Opt(Set({","})), Plus(Set(SPACE)), Rep(Set(DIGIT), 4, 4), WordB>>)>>))
\* Date[:;\s]*([^\n]{0,30})   re.I
RE_DATE_LABEL ==
    Cat(<<Lit("Date"), Star(Set(SPACE \cup {":", ";"})),
          Grp(1, Rep(NotSet({"\n"}), 0, 30))>>)
\* \b(19|20)\d{2}\b
RE_YEAR == Cat(<<WordB, Grp(1, Alt(<<Lit("19"), Lit("20")>>)), Rep(Set(DIGIT), 2, 2), WordB>>)

\* the year in what follows the Date label matched by m2, if any
labelled_year(text, m2) ==
    IF ~m2.ok THEN None
    ELSE Let(Search(RE_YEAR, Group(text, m2, 1), FALSE),
             LAMBDA y : IF y.ok THEN Some(Group(Group(text, m2, 1), y, 0)) ELSE None)

get_date(self) ==
    Let(Search(_DATE_RE, self.text, TRUE),
        LAMBDA m :
            IF m.ok THEN Some(strip(Group(self.text, m, 1)))
            ELSE Let(labelled_year(self.text, Search(RE_DATE_LABEL, self.text, TRUE)),
                     LAMBDA y :
                         IF y # None THEN y
                         ELSE Let(Search(RE_YEAR, self.text, FALSE),
                                  LAMBDA y2 : IF y2.ok THEN Some(Group(self.text, y2, 0))
                                              ELSE None)))

\* \b(?:mg|g|gram|grams|ml|mcg|tablet|tab|capsule|drop|patch)\b   re.I
UNIT_WORD_RE ==
    Cat(<<WordB,
          Alt(<<Lit("mg"), Lit("g"), Lit("gram"), Lit("grams"), Lit("ml"), Lit("mcg"),
                Lit("tablet"), Lit("tab"), Lit("capsule"), Lit("drop"), Lit("patch")>>),
          WordB>>)
\* \b(?:take|every|daily|once|twice|before|after|with|apply|taper|inhale|use|for)\b   re.I
DIRECTION_WORD_RE ==
    Cat(<<WordB,
          Alt(<<Lit("take"), Lit("every"), Lit("daily"), Lit("once"), Lit("twice"),
                Lit("before"), Lit("after"), Lit("with"), Lit("apply"), Lit("taper"),
                Lit("inhale"), Lit("use"), Lit("for")>>),
          WordB>>)

\* \bAddress[:\s\-]   re.I
RE_ADDRESS_LABEL == Cat(<<WordB, Lit("Address"), Set(SPACE \cup {":", "-"})>>)
\* Address[:\s\-]*   re.I
RE_ADDRESS_SPLIT == Cat(<<Lit("Address"), Star(Set(SPACE \cup {":", "-"}))>>)
\* \bRefill\b   re.I
RE_REFILL_WORD == Cat(<<WordB, Lit("Refill"), WordB>>)
\* [A-Z][a-z]{2,}\s+\d
RE_WORD_THEN_DIGIT ==
    Cat(<<Set(UPPER), Rep(Set(LOWER), 2, Unbounded), Plus(Set(SPACE)), Set(DIGIT)>>)
\* \s+,
RE_SPACE_COMMA == Cat(<<Plus(Set(SPACE)), Set({","})>>)
\* \bAddress[:\s]*([A-Za-z0-9,\.\s\-]{10,120})   re.I
RE_ADDRESS_LOOSE ==
    Cat(<<WordB, Lit("Address"), Star(Set(SPACE \cup {":"})),
          Grp(1, Rep(Set(ALPHA \cup DIGIT \cup {",", ".", "-"} \cup SPACE), 10, 120))>>)

\* re.split(pattern, s)[-1]: what follows the last match
RECURSIVE split_last(_, _, _, _)
split_last(re, s, ci, p) ==
    Let(SearchFrom(re, s, ci, p),
        LAMBDA m : IF m.ok /\ m.e > m.s THEN split_last(re, s, ci, m.e)
                   ELSE SubSeq(s, p, Len(s)))
\* re.split(pattern, s)[0]: what precedes the first match
split_first(re, s, ci) ==
    Let(Search(re, s, ci), LAMBDA m : IF m.ok THEN SubSeq(s, 1, m.s - 1) ELSE s)

address_terminator(ln) ==
    \/ Search(UNIT_WORD_RE, ln, TRUE).ok
    \/ Search(DIRECTION_WORD_RE, ln, TRUE).ok
    \/ Search(RE_REFILL_WORD, ln, TRUE).ok
    \/ Search(RE_WORD_THEN_DIGIT, ln, FALSE).ok

\* the loop of get_address: addr_lines after the lines from index i on
RECURSIVE address_lines(_, _, _, _)
address_lines(lines, i, found, acc) ==
    IF i > Len(lines) THEN acc
    ELSE IF ~found
         THEN IF Search(RE_ADDRESS_LABEL, lines[i], TRUE).ok
              THEN Let(strip(split_last(RE_ADDRESS_SPLIT, lines[i], TRUE, 1)),
                       LAMBDA part :
                           address_lines(lines, i + 1, TRUE,
                                         IF part # "" THEN Append(acc, part) ELSE acc))
              ELSE address_lines(lines, i + 1, FALSE, acc)
    ELSE IF address_terminator(lines[i]) THEN acc
    ELSE address_lines(lines, i + 1, TRUE, Append(acc, lines[i]))

get_address(self) ==
    Let(address_lines(self.lines, 1, FALSE, <<>>),
        LAMBDA addr_lines :
            IF addr_lines # <<>>
            THEN Some(rstrip(strip(Sub(RE_SPACE_COMMA, Text(","), join(" ", addr_lines),
                                       FALSE)),
                             {".", ","}))
            ELSE Let(Search(RE_ADDRESS_LOOSE, self.text, TRUE),
                     LAMBDA m :
                         IF m.ok THEN Some(rstrip(strip(Group(self.text, m, 1)), {".", ","}))
                         ELSE None))

\* mg|g|gram|grams|ml|mcg
RE_STRENGTH_UNIT ==
    Alt(<<Lit("mg"), Lit("g"), Lit("gram"), Lit("grams"), Lit("ml"), Lit("mcg")>>)
\* pair_re:
\* ([A-Za-z][A-Za-z0-9\-\(\)\/\.\s]{2,80}?)\s*[,:-]?\s*
\* (\d{1,3}(?:\.\d+)?\s*(?:mg|g|gram|grams|ml|mcg))   re.I
pair_re ==
    Cat(<<Grp(1, Cat(<<Set(ALPHA),
                       RepLazy(Set(ALPHA \cup DIGIT \cup {"-", "(", ")", "/", "."}
                                   \cup SPACE), 2, 80)>>)),
          Star(Set(SPACE)), Opt(Set({",", ":", "-"})), Star(Set(SPACE)),
          Grp(2, Cat(<<Rep(Set(DIGIT), 1, 3),
                       Opt(Cat(<<Lit("."), Plus(Set(DIGIT))>>)),
                       Star(Set(SPACE)), RE_STRENGTH_UNIT>>))>>)
\* name_only_re: \b([A-Za-z][A-Za-z\-\']{2,60})\b
name_only_re ==
    Cat(<<WordB, Grp(1, Cat(<<Set(ALPHA), Rep(Set(ALPHA \cup {"-", "'"}), 2, 60)>>)),
          WordB>>)
\* \b(Address|Name|Date|Phone|Refill|Page|Directions)\b   re.I
RE_LABEL_LINE ==
    Cat(<<WordB,
          Alt(<<Lit("Address"), Lit("Name"), Lit("Date"), Lit("Phone"), Lit("Refill"),
                Lit("Page"), Lit("Directions")>>),
          WordB>>)
\* [^A-Za-z0-9\-\(\)\/\.\' ]+
RE_NAME_JUNK ==
    Plus(NotSet(ALPHA \cup DIGIT \cup {"-", "(", ")", "/", ".", "'", " "}))
\* [^A-Za-z]
RE_NON_LETTER == NotSet(ALPHA)
\* \b\d
RE_DIGIT_START == Cat(<<WordB, Set(DIGIT)>>)
\* \b[A-Za-z]{6,}\b
RE_LONG_WORD == Cat(<<WordB, Rep(Set(ALPHA), 6, Unbounded), WordB>>)
\* [,;\-:]\s*
RE_SEPARATOR == Cat(<<Set({",", ";", "-", ":"}), Star(Set(SPACE))>>)
\* \b\d[\d\.]*\s*(?:mg|g|gram|grams|ml|mcg)\b   re.I
RE_DOSAGE ==
    Cat(<<WordB, Set(DIGIT), Star(Set(DIGIT \cup {"."})), Star(Set(SPACE)),
          RE_STRENGTH_UNIT, WordB>>)

\* .strip(" ,;:-")
StripChars == {" ", ",", ";", ":", "-"}

\* the directions of a match on line idx: the rest of the line if it holds a
\* direction word, else the first of the next two lines that holds one
directions_for(post, lines, idx) ==
    LET has(j) == idx + j <= Len(lines)
                  /\ Search(DIRECTION_WORD_RE, lines[idx + j], TRUE).ok
    IN  strip(IF Search(DIRECTION_WORD_RE, post, TRUE).ok THEN post
              ELSE IF has(1) THEN lines[idx + 1]
              ELSE IF has(2) THEN lines[idx + 2]
              ELSE "")

\* for m in pair_re.finditer(ln): the medicines of the primary match
RECURSIVE primary_meds(_, _, _)
primary_meds(lines, idx, p) ==
    Let(SearchFrom(pair_re, lines[idx], TRUE, p),
        LAMBDA m :
            IF ~m.ok THEN <<>>
            ELSE Let(strip(Sub(RE_NAME_JUNK, Empty, strip(Group(lines[idx], m, 1)), FALSE)),
                     LAMBDA name :
                         IF Len(Sub(RE_NON_LETTER, Empty, name, FALSE)) < 3 THEN <<>>
                         ELSE <<[name       |-> name,
                                 strength   |-> strip(Group(lines[idx], m, 2)),
                                 directions |->
                                     directions_for(
                                         stripc(SubSeq(lines[idx], m.e, Len(lines[idx])),
                                                StripChars),
                                         lines, idx)]>>)
                 \o primary_meds(lines, idx, m.e))

\* the name-only match of a line without a primary match
secondary_meds(lines, idx) ==
    IF \/ Search(UNIT_WORD_RE, lines[idx], TRUE).ok
       \/ Search(RE_DIGIT_START, lines[idx], FALSE).ok
       \/ Search(RE_LONG_WORD, lines[idx], FALSE).ok
    THEN Let(strip(Sub(RE_DOSAGE, Empty,
                       strip(split_first(RE_SEPARATOR, lines[idx], FALSE)), TRUE)),
             LAMBDA candidate :
                 Let(Search(name_only_re, candidate, FALSE),
                     LAMBDA m2 :
                         IF m2.ok
                         THEN <<[name       |-> strip(Group(candidate, m2, 1)),
                                 strength   |-> "",
                                 directions |->
                                     directions_for(
                                         stripc(SubSeq(lines[idx], Len(candidate) + 1,
                                                       Len(lines[idx])),
                                                StripChars),
                                         lines, idx)]>>
                         ELSE <<>>))
    ELSE <<>>

\* the loop over self.lines: the matches in discovery order
RECURSIVE discovered_meds(_, _)
discovered_meds(lines, idx) ==
    IF idx > Len(lines) THEN <<>>
    ELSE (IF /\ Search(RE_LABEL_LINE, lines[idx], TRUE).ok
             /\ startswith(lower(strip(lines[idx])), "directions")
          THEN <<>>
          ELSE Let(primary_meds(lines, idx, 1),
                   LAMBDA line_meds : IF line_meds # <<>> THEN line_meds
                                      ELSE secondary_meds(lines, idx)))
         \o discovered_meds(lines, idx + 1)

\* the key without the lowercasing
med_key_as_written(m) == <<m.name, m.strength>>
\* key = (m["name"].lower(), (m.get("strength") or "").lower())
med_key(m) == <<lower(m.name), lower(m.strength)>>

\* the loop over meds with the set seen
RECURSIVE dedup_meds(_, _)
dedup_meds(meds, seen) ==
    IF meds = <<>> THEN <<>>
    ELSE LET m == Head(meds)
         IN  IF med_key(m) \in seen THEN dedup_meds(Tail(meds), seen)
             ELSE <<m>> \o dedup_meds(Tail(meds), seen \cup {med_key(m)})

get_medicines(self) == dedup_meds(discovered_meds(self.lines, 1), {})

parse(self) ==
    [doctor_name     |-> get_name(self, TRUE),
     patient_name    |-> get_name(self, FALSE),
     date            |-> get_date(self),
     patient_address |-> get_address(self),
     medicines       |-> get_medicines(self),
     refills         |-> PyInt(get_refills(self)),
     warnings        |-> <<>>]

\* the keys of the record whose values the extractors give
ParseFields ==
    {"doctor_name", "patient_name", "date", "patient_address", "medicines", "refills"}
\* parse() when the extractor of the field fault raises: the dict display of
\* lines 60-68 has no try around the calls, so the exception leaves parse()
parse_failing(self, fault) ==
    IF fault \in ParseFields THEN Raised("RuntimeError") ELSE parse(self)

(***************************************************************************)
(* PatientDetails                                                          *)
(***************************************************************************)
NZDIGIT == DIGIT \ {"0"}
MonthFull == <<"January", "February", "March", "April", "May", "June", "July",
               "August", "September", "October", "November", "December">>

\* The regular expressions datetime.strptime builds for the directives
\* (_strptime.TimeRE); a space of the format stands for \s+, and the
\* pattern is compiled with re.I.  Group 1 is the day, 2 the month, 3 the year.
Directive(c) ==
    CASE c = "d" -> Grp(1, Alt(<<Cat(<<Lit("3"), Set({"0", "1"})>>),
                                 Cat(<<Set({"1", "2"}), Set(DIGIT)>>),
                                 Cat(<<Lit("0"), Set(NZDIGIT)>>),
                                 Set(NZDIGIT),
                                 Cat(<<Lit(" "), Set(NZDIGIT)>>)>>))
      [] c = "m" -> Grp(2, Alt(<<Cat(<<Lit("1"), Set({"0", "1", "2"})>>),
                                 Cat(<<Lit("0"), Set(NZDIGIT)>>),
                                 Set(NZDIGIT)>>))
      [] c = "Y" -> Grp(3, Rep(Set(DIGIT), 4, 4))
      [] c = "y" -> Grp(3, Rep(Set(DIGIT), 2, 2))
      [] c = "b" -> Grp(2, Alt(MapSeq(Lit, MonthAbbr)))
      [] c = "B" -> Grp(2, Alt(MapSeq(Lit, MonthFull)))
      [] c = " " -> Plus(Set(SPACE))
      [] OTHER   -> Lit(c)
FormatRE(fmt) == Cat(MapSeq(Directive, fmt))

\* the patterns with the month before the day in the first one
patterns_month_first ==
    << <<"m", "/", "d", "/", "Y">>, <<"d", "-", "m", "-", "Y">>,
       <<"d", "/", "m", "/", "y">>, <<"d", "-", "m", "-", "y">>,
       <<"Y", "-", "m", "-", "d">>,
       <<"d", " ", "b", " ", "Y">>, <<"d", " ", "B", " ", "Y">>,
       <<"b", " ", "d", ",", " ", "Y">>, <<"B", " ", "d", ",", " ", "Y">> >>
\* patterns = ["%d/%m/%Y", "%d-%m-%Y", "%d/%m/%y", "%d-%m-%y", "%Y-%m-%d",
\*             "%d %b %Y", "%d %B %Y", "%b %d, %Y", "%B %d, %Y"]
patterns ==
    << <<"d", "/", "m", "/", "Y">>, <<"d", "-", "m", "-", "Y">>,
       <<"d", "/", "m", "/", "y">>, <<"d", "-", "m", "-", "y">>,
       <<"Y", "-", "m", "-", "d">>,
       <<"d", " ", "b", " ", "Y">>, <<"d", " ", "B", " ", "Y">>,
       <<"b", " ", "d", ",", " ", "Y">>, <<"B", " ", "d", ",", " ", "Y">> >>

IsLeap(y) == (y % 4 = 0 /\ y % 100 # 0) \/ y % 400 = 0
DaysInMonth(y, m) ==
    IF m = 2 THEN (IF IsLeap(y) THEN 29 ELSE 28)
    ELSE IF m \in {4, 6, 9, 11} THEN 30 ELSE 31
MonthIndex(names, s) == CHOOSE i \in 1..12 : lower(names[i]) = lower(s)
Pad(n, w) ==
    LET d(k) == Ch(DigitChars, ((n \div k) % 10) + 1)
    IN  IF w = 4 THEN d(1000) \o d(100) \o d(10) \o d(1) ELSE d(10) \o d(1)
\* the date with the month and the day not padded to two digits
isoformat_unpadded(y, m, d) ==
    Pad(y, 4) \o "-" \o (IF m < 10 THEN Ch(DigitChars, m + 1) ELSE Pad(m, 2))
    \o "-" \o (IF d < 10 THEN Ch(DigitChars, d + 1) ELSE Pad(d, 2))
\* date.isoformat()
isoformat(y, m, d) == Pad(y, 4) \o "-" \o Pad(m, 2) \o "-" \o Pad(d, 2)

\* the format has the directive c
has_directive(fmt, c) == \E i \in 1..Len(fmt) : fmt[i] = c
\* the year of %Y, and of %y with the pivot of 1969
year_of(fmt, yn) ==
    IF has_directive(fmt, "Y") THEN yn ELSE IF yn <= 68 THEN 2000 + yn ELSE 1900 + yn
\* the month of %m, %b and %B
month_of(fmt, ms) ==
    IF has_directive(fmt, "b") THEN MonthIndex(MonthAbbr, ms)
    ELSE IF has_directive(fmt, "B") THEN MonthIndex(MonthFull, ms)
    ELSE int_digits(ms, 0)
\* date(year, month, day).isoformat(), or None where there is no such date
date_iso(year, month, day) ==
    IF year < 1 \/ day > DaysInMonth(year, month) THEN None
    ELSE Some(isoformat(year, month, day))

\* datetime.strptime(dt_str, p).date().isoformat(), or None where strptime
\* raises ValueError (no match, unconverted data, no such calendar date)
strptime_iso(dt_str, fmt) ==
    Let(MatchAt(FormatRE(fmt), dt_str, TRUE, 1),
        LAMBDA m :
            IF ~m.ok \/ m.e # Len(dt_str) + 1 THEN None
            ELSE date_iso(year_of(fmt, int_digits(Group(dt_str, m, 3), 0)),
                          month_of(fmt, Group(dt_str, m, 2)),
                          int_digits(lstrip(Group(dt_str, m, 1), {" "}), 0)))

\* the first of the results rs that is a date
first_of(rs) ==
    IF \A i \in 1..Len(rs) : rs[i] = None THEN None
    ELSE rs[CHOOSE i \in 1..Len(rs) : rs[i] # None /\ \A j \in 1..(i - 1) : rs[j] = None]
\* the loop over patterns: the result of the first one that parses
first_parse(dt_str) ==
    first_of([i \in 1..Len(patterns) |-> strptime_iso(dt_str, patterns[i])])

\* dt_str: Optional[str]
_try_parse_date(dt_str) ==
    IF dt_str = None \/ dt_str = Some("") THEN None
    ELSE Let(strip(dt_str[1]),
             LAMBDA t :
                 Let(first_parse(t),
                     LAMBDA r :
                         IF r # None THEN r
                         ELSE Let(Search(RE_YEAR, t, FALSE),
                                  LAMBDA y : IF y.ok THEN Some(Group(t, y, 0) \o "-01-01")
                                             ELSE None)))

\* int(x) for a str: optional whitespace, optional sign, digits that single
\* underscores may separate
RE_INT_LITERAL ==
    Cat(<<Star(Set(SPACE)), Grp(1, Opt(Set({"+", "-"}))),
          Grp(2, Cat(<<Plus(Set(DIGIT)), Star(Cat(<<Lit("_"), Plus(Set(DIGIT))>>))>>)),
          Star(Set(SPACE)), Eol>>)
\* int(v): the int, or the exception raised
int(v) ==
    CASE v.kind = "int" -> PyInt(v.n)
      [] v.kind = "str" ->
           Let(MatchAt(RE_INT_LITERAL, v.s, FALSE, 1),
               LAMBDA m :
                   IF ~m.ok \/ m.e # Len(v.s) + 1 THEN Raised("ValueError")
                   ELSE IF Group(v.s, m, 1) = "-"
                        THEN PyInt(0 - int_digits(replace(Group(v.s, m, 2), "_", ""), 0))
                   ELSE PyInt(int_digits(replace(Group(v.s, m, 2), "_", ""), 0)))
      [] OTHER -> Raised("TypeError")

\* Medicine.normalized
normalized(m) ==
    [name       |-> collapse_ws(strip(m.name)),
     strength   |-> collapse_ws(strip(m.strength)),
     directions |-> collapse_ws(strip(m.directions))]

\* \bDate\b.*$   re.I
RE_DATE_TAIL == Cat(<<WordB, Lit("Date"), WordB, Star(Dot), Eol>>)
\* \bDate\s*[:\-]?\s*$   re.I
RE_DATE_TRAILING ==
    Cat(<<WordB, Lit("Date"), Star(Set(SPACE)), Opt(Set({":", "-"})), Star(Set(SPACE)),
          Eol>>)

\* PatientDetails.__init__ with _normalize: the object, or the exception
\* that int(refills or 0) raises
PatientDetails(doctor_name, patient_name, date, patient_address, medicines, refills, warns) ==
    Let(int(or(refills, PyInt(0))),
        LAMBDA r :
        IF IsRaised(r) THEN r
        ELSE [doctor_name     |-> doctor_name,
              patient_name    |->
                  IF patient_name # None /\ patient_name[1] # ""
                  THEN Some(strip(Sub(RE_DATE_TAIL, Empty,
                                      strip(collapse_ws(patient_name[1])), TRUE)))
                  ELSE patient_name,
              date            |-> date,
              parsed_date     |->
                  IF date # None /\ date[1] # "" THEN _try_parse_date(date) ELSE None,
              patient_address |->
                  IF patient_address # None /\ patient_address[1] # ""
                  THEN Some(rstrip(strip(collapse_ws(patient_address[1])),
                                   {".", ",", "|"}))
                  ELSE patient_address,
              medicines       |-> MapSeq(normalized, medicines),
              refills         |-> r.n,
              warnings        |-> warns])

\* entities.get(k) for a key that holds Optional[str]
get_str(entities, k) == IF k \in DOMAIN entities THEN entities[k] ELSE None
\* entities.get(k) for a key that holds any object
get_obj(entities, k) == IF k \in DOMAIN entities THEN entities[k] ELSE PyNone
\* entities.get(k) or [] for a key that holds a list
get_list(entities, k) == IF k \in DOMAIN entities THEN entities[k] ELSE <<>>

\* The items of medicines are dicts with the keys name, strength, directions,
\* as the parser produces them.
from_extractor(entities) ==
    PatientDetails(or_str(get_str(entities, "doctor_name"), get_str(entities, "doctor")),
                   or_str(get_str(entities, "patient_name"), get_str(entities, "name")),
                   get_str(entities, "date"),
                   or_str(get_str(entities, "patient_address"),
                          get_str(entities, "address")),
                   get_list(entities, "medicines"),
                   or(or(get_obj(entities, "refills"), get_obj(entities, "refill")), PyInt(0)),
                   get_list(entities, "warnings"))

\* PatientDetailsModel.refills_must_be_int: int(v or 0), 0 on an exception
refills_must_be_int(v) ==
    Let(int(or(v, PyInt(0))), LAMBDA r : IF IsRaised(r) THEN 0 ELSE r.n)

\* PatientDetailsModel.normalize_name
normalize_name(v) ==
    IF v = None \/ v = Some("") THEN None
    ELSE Some(strip(collapse_ws(strip(Sub(RE_DATE_TRAILING, Empty, v[1], TRUE)))))

\* to_model(): the PatientDetailsModel built from the object, its validators run
to_model(self) ==
    [doctor_name     |-> self.doctor_name,
     patient_name    |-> normalize_name(self.patient_name),
     date            |-> self.date,
     parsed_date     |-> self.parsed_date,
     patient_address |-> self.patient_address,
     medicines       |-> self.medicines,
     refills         |-> refills_must_be_int(PyInt(self.refills)),
     warnings        |-> self.warnings]

\* to_dict(): self.to_model().dict()
to_dict(self) == to_model(self)

(***************************************************************************)
(* DocumentExtractor                                                       *)
(***************************************************************************)
EmptyDict == <<>>
WARN_NO_PARSER == "No prescription parser available."
WARN_PARSER == "PrescriptionParser threw an exception; see server logs."
WARN_PATIENT == "PatientDetails normalization failed; see server logs."

\* What the imports at the top of doc_extractor.py resolved to is part of
\* the caller's environment env:
\*   parser_class      PrescriptionParser is not None
\*   patient_class     PatientDetails is not None
\*   extract_entities  what the function fallback of line 61-62 gives: the
\*                     mapping it returns, or the exception of the import or
\*                     of the call

\* PrescriptionParser(text).parse() or {}: the mapping, or the exception
parse_call(text) ==
    Let(PrescriptionParser(text), LAMBDA p : IF IsRaised(p) THEN p ELSE parse(p))

\* lines 58-65: the inner try of the function fallback
function_fallback(env) ==
    IF IsRaised(env.extract_entities)
    THEN [entities |-> EmptyDict, warnings |-> <<WARN_NO_PARSER>>]
    ELSE [entities |-> env.extract_entities, warnings |-> <<>>]

\* the outer try without the warning of its except clause
parser_stage_silent(text, env) ==
    IF ~env.parser_class THEN function_fallback(env)
    ELSE Let(parse_call(text),
             LAMBDA r :
                 IF IsRaised(r) THEN [entities |-> EmptyDict, warnings |-> <<>>]
                 ELSE [entities |-> r, warnings |-> <<>>])
\* lines 54-70: the outer try around the parser
parser_stage(text, env) ==
    IF ~env.parser_class THEN function_fallback(env)
    ELSE Let(parse_call(text),
             LAMBDA r :
                 IF IsRaised(r) THEN [entities |-> EmptyDict, warnings |-> <<WARN_PARSER>>]
                 ELSE [entities |-> r, warnings |-> <<>>])

\* patient_obj.get("parsed_date") or patient_obj.get("date")
parsed_date_of(patient_obj) == or_str(patient_obj.parsed_date, patient_obj.date)

\* lines 73-84: the try around the normalizer
normalizer_stage(entities, env) ==
    IF ~env.patient_class
    THEN [patient |-> NoObject, parsed_date |-> get_str(entities, "date"),
          warnings |-> <<>>]
    ELSE Let(from_extractor(entities),
             LAMBDA pd :
                 IF IsRaised(pd)
                 THEN [patient |-> NoObject, parsed_date |-> None,
                       warnings |-> <<WARN_PATIENT>>]
                 ELSE Let(to_model(pd),
                          LAMBDA patient_obj :
                              [patient     |-> patient_obj,
                               parsed_date |-> parsed_date_of(patient_obj),
                               warnings    |-> <<>>]))

\* extract_from_text: the mapping returned; both stages catch every
\* exception of theirs
extract_from_text(text, env) ==
    Let(parser_stage(text, env),
        LAMBDA st1 :
            Let(normalizer_stage(st1.entities, env),
                LAMBDA st2 : [entities    |-> st1.entities,
                              patient     |-> st2.patient,
                              warnings    |-> st1.warnings \o st2.warnings,
                              parsed_date |-> st2.parsed_date]))

(***************************************************************************)
(* Inputs                                                                  *)
(***************************************************************************)
\* the texts made of at most n of the fragments F
RECURSIVE Texts(_, _)
Texts(F, n) ==
    IF n = 0 THEN {""}
    ELSE LET T == Texts(F, n - 1) IN T \cup {t \o f : t \in T, f \in F}

\* the texts made of at most n of the lines L, each ended by a newline
TextsOfLines(L, n) == Texts({ln \o "\n" : ln \in L}, n)

(***************************************************************************)
(* Operations                                                              *)
(***************************************************************************)
Start(inputs) ==
    /\ input \in inputs
    /\ parser = NoObject
    /\ patient = NoObject
    /\ warnings = <<>>
    /\ call = "start"
    /\ ret = None
    /\ threads = <<>>
    /\ heap = [lists |-> <<>>, warnings |-> <<>>]
    /\ request = NoObject

\* clean_ocr_text(input)
Clean ==
    /\ call = "start"
    /\ call' = "clean_ocr_text"
    /\ ret' = clean_ocr_text(input.s)
    /\ UNCHANGED <<input, parser, patient, warnings, threads, heap, request>>

\* clean_ocr_text applied to the text it returned
CleanAgain ==
    /\ call = "clean_ocr_text"
    /\ input' = PyStr(ret)
    /\ call' = "clean_again"
    /\ ret' = clean_ocr_text(ret)
    /\ UNCHANGED <<parser, patient, warnings, threads, heap, request>>

\* the constructor gave p: the object is kept, an exception is the outcome
Constructed(p) ==
    IF IsRaised(p) THEN parser' = NoObject /\ ret' = p
    ELSE parser' = p /\ ret' = None

\* parser = PrescriptionParser(input)
Construct ==
    /\ call = "start"
    /\ Constructed(PrescriptionParser(input))
    /\ call' = "PrescriptionParser"
    /\ UNCHANGED <<input, patient, warnings, threads, heap, request>>

Method(name, value) ==
    /\ parser # NoObject
    /\ call' = name
    /\ ret' = value
    /\ UNCHANGED <<input, parser, patient, warnings, threads, heap, request>>

GetPatientName == Method("get_name", get_name(parser, FALSE))
GetDoctorName == Method("get_name_doctor", get_name(parser, TRUE))
GetDate == Method("get_date", get_date(parser))
GetRefills == Method("get_refills", get_refills(parser))
GetAddress == Method("get_address", get_address(parser))
GetMedicines == Method("get_medicines", get_medicines(parser))
Parse == Method("parse", parse(parser))

\* parser.parse() while the extractor of one field raises
ParseFailing ==
    /\ parser # NoObject
    /\ call' = "parse_failing"
    /\ \E f \in ParseFields : ret' = [fault |-> f, result |-> parse_failing(parser, f)]
    /\ UNCHANGED <<input, parser, patient, warnings, threads, heap, request>>

\* PatientDetails._try_parse_date(input)
TryParseDate ==
    /\ call = "start"
    /\ call' = "_try_parse_date"
    /\ ret' = _try_parse_date(Some(input.s))
    /\ UNCHANGED <<input, parser, patient, warnings, threads, heap, request>>

\* from_extractor gave p: the object is kept, an exception is the outcome
Normalized(p) ==
    IF IsRaised(p) THEN patient' = NoObject /\ ret' = p
    ELSE patient' = p /\ ret' = None

\* patient = PatientDetails.from_extractor(input)
FromExtractor ==
    /\ call = "start"
    /\ Normalized(from_extractor(input))
    /\ call' = "from_extractor"
    /\ UNCHANGED <<input, parser, warnings, threads, heap, request>>

\* patient.to_model()
ToModel ==
    /\ patient # NoObject
    /\ call' = "to_model"
    /\ ret' = to_model(patient)
    /\ UNCHANGED <<input, parser, patient, warnings, threads, heap, request>>

\* patient.to_dict()
ToDict ==
    /\ patient # NoObject
    /\ call' = "to_dict"
    /\ ret' = to_dict(patient)
    /\ UNCHANGED <<input, parser, patient, warnings, threads, heap, request>>

\* extract_from_text returned r, whose warnings are the list self.warnings
Extracted(r) == ret' = r /\ warnings' = r.warnings

\* DocumentExtractor().extract_from_text(input.text) in the environment
\* input.env; self.warnings is the list that is returned
ExtractFromText ==
    /\ call = "start"
    /\ Extracted(extract_from_text(input.text, input.env))
    /\ call' = "extract_from_text"
    /\ UNCHANGED <<input, parser, patient, threads, heap, request>>

\* Invocations of extract_from_text that run at the same time.  threads[t]
\* is invocation t: the extractor it was called on (self), its argument
\* (text), its position (pc), its local variables and what it returned.
\* heap.lists are the list objects, heap.warnings[d] is the list the
\* attribute warnings of extractor d refers to.
self_warnings(t) == heap.warnings[threads[t].self]

\* line 48: self.warnings = [] binds the attribute to a new list
ResetWarnings(t) ==
    /\ threads[t].pc = "reset"
    /\ heap' = [lists    |-> Append(heap.lists, <<>>),
                warnings |-> [heap.warnings EXCEPT ![threads[t].self] = Len(heap.lists) + 1]]
    /\ threads' = [threads EXCEPT ![t].pc = "parser"]
    /\ UNCHANGED <<input, parser, patient, warnings, call, ret, request>>

\* lines 54-70: entities is local, the warning is appended to self.warnings
ParserStage(t) ==
    /\ threads[t].pc = "parser"
    /\ LET st == parser_stage(threads[t].text, input.env) IN
        /\ threads' = [threads EXCEPT ![t].pc = "normalizer", ![t].entities = st.entities]
        /\ heap' = [heap EXCEPT !.lists[self_warnings(t)] = @ \o st.warnings]
    /\ UNCHANGED <<input, parser, patient, warnings, call, ret, request>>

\* lines 73-84: patient_obj and parsed_date are local, the warning is
\* appended to self.warnings
NormalizerStage(t) ==
    /\ threads[t].pc = "normalizer"
    /\ LET st == normalizer_stage(threads[t].entities, input.env) IN
        /\ threads' = [threads EXCEPT ![t].pc = "return",
                                      ![t].patient = st.patient,
                                      ![t].parsed_date = st.parsed_date]
        /\ heap' = [heap EXCEPT !.lists[self_warnings(t)] = @ \o st.warnings]
    /\ UNCHANGED <<input, parser, patient, warnings, call, ret, request>>

\* lines 86-91: the mapping returned holds the list self.warnings itself
Return(t) ==
    /\ threads[t].pc = "return"
    /\ threads' = [threads EXCEPT ![t].pc = "done",
                                  ![t].result = [entities    |-> threads[t].entities,
                                                 patient     |-> threads[t].patient,
                                                 warnings    |-> self_warnings(t),
                                                 parsed_date |-> threads[t].parsed_date]]
    /\ UNCHANGED <<input, parser, patient, warnings, call, ret, heap, request>>

\* the mapping invocation t returned, as its caller reads it
result_of(t) == [threads[t].result EXCEPT !.warnings = heap.lists[@]]

(***************************************************************************)
(* Cleaning: clean_ocr_text on a raw text, and again on its own output     *)
(***************************************************************************)
MaxCleanFrags == 3
CleanFrags == {"5 ", "a ", "me", "m g", "mgm", "\n", " x", "\t", "\f", "\r"}
CleanInputs == {PyStr(t) : t \in Texts(CleanFrags, MaxCleanFrags)}

InitClean == Start(CleanInputs)
NextClean == Clean \/ CleanAgain
SpecClean == InitClean /\ [][NextClean]_vars

\* C2: cleaning is idempotent: cleaning a text that clean_ocr_text returned
\* gives that text back, clean(clean(x)) = clean(x).
C2_CleanIdempotent == call = "clean_again" => ret = input.s

(***************************************************************************)
(* Refills: PrescriptionParser(text).get_refills()                         *)
(***************************************************************************)
MaxRefillFrags == 4
RefillFrags == {"Refill", "Refills:", " ", "\n", "12", "7", "-", "x"}
RefillInputs == {PyStr(t) : t \in Texts(RefillFrags, MaxRefillFrags)} \cup {PyNone}

InitRefills == Start(RefillInputs)
NextRefills == Construct \/ GetRefills
SpecRefills == InitRefills /\ [][NextRefills]_vars

\* the first position from p on whose character is not in cs
SkipOver(t, p, cs) ==
    CHOOSE q \in p..(Len(t) + 1) :
        /\ \A k \in p..(q - 1) : Ch(t, k) \in cs
        /\ q <= Len(t) => Ch(t, q) \notin cs
\* the digits that follow a Refill/Refills label starting at position i:
\* after the label, optional whitespace, at most one ':' or '-', optional
\* whitespace ("" when i starts no label or no digits follow)
DigitsAfterRefillLabel(t, i) ==
    LET a == i + 6
        b == IF a <= Len(t) /\ Ch(t, a) \in {"s", "S"} THEN a + 1 ELSE a
        c == SkipOver(t, b, SPACE)
        d == IF c <= Len(t) /\ Ch(t, c) \in {":", "-"} THEN c + 1 ELSE c
        e == SkipOver(t, d, SPACE)
        f == SkipOver(t, e, DIGIT)
    IN  IF /\ i + 5 <= Len(t)
           /\ lower(SubSeq(t, i, i + 5)) = "refill"
           /\ (i = 1 \/ Ch(t, i - 1) \notin WORDCH)
        THEN SubSeq(t, e, f - 1) ELSE ""
RefillLabels(t) == {i \in 1..Len(t) : DigitsAfterRefillLabel(t, i) # ""}
\* the value of a string of decimal digits, from its last digit
RECURSIVE Decimal(_)
Decimal(ds) ==
    IF ds = "" THEN 0
    ELSE (CHOOSE n \in 0..9 : Ch(DigitChars, n + 1) = Ch(ds, Len(ds)))
         + 10 * Decimal(SubSeq(ds, 1, Len(ds) - 1))
ExpectedRefills(t) ==
    IF RefillLabels(t) = {} THEN 0
    ELSE Decimal(DigitsAfterRefillLabel(t,
             CHOOSE i \in RefillLabels(t) : \A j \in RefillLabels(t) : i <= j))

\* C4: get_refills returns a non-negative integer: 0 when the text has no
\* Refill/Refills label followed by digits, and otherwise the value of the
\* digits that follow the first such label.
C4_Refills ==
    call = "get_refills" => ret \in Nat /\ ret = ExpectedRefills(parser.text)
\* a label the digits do not follow, then a label with two digits
C4_Witness ==
    /\ call = "get_refills"
    /\ parser.text = "Refill\nRefills:12"
    /\ ret = 12

(***************************************************************************)
(* Names: PrescriptionParser(text).get_name() and get_name(doctor=True)    *)
(***************************************************************************)
MaxNameFrags == 4
NameFrags == {"Name:", "Patient: ", "Dr. ", "A", "Bob", " Date", "\n", " "}
NameInputs == {PyStr(t) : t \in Texts(NameFrags, MaxNameFrags)}

InitName == Start(NameInputs)
NextName == Construct \/ GetPatientName \/ GetDoctorName
SpecName == InitName /\ [][NextName]_vars

\* a Patient or Name label with its separator
NameLabelForms == {"Name:", "Name: ", "Patient:", "Patient: "}
\* a name candidate: letters, periods, apostrophes, hyphens and single
\* spaces, from a letter to a letter or a period, with no "Date" in it
NameCandidateChars == ALPHA \cup {".", "'", "-", " "}
IsNameCandidate(c) ==
    /\ c # ""
    /\ \A k \in 1..Len(c) : Ch(c, k) \in NameCandidateChars
    /\ Ch(c, 1) \in ALPHA
    /\ Ch(c, Len(c)) \in ALPHA \cup {"."}
    /\ \A k \in 1..(Len(c) - 1) : ~(Ch(c, k) = " " /\ Ch(c, k + 1) = " ")
    /\ \A k \in 1..(Len(c) - 3) : lower(SubSeq(c, k, k + 3)) # "date"
\* what ends the candidate: the end of the text, the end of the line, or a
\* Date label after a space
IsNameEnding(r) ==
    \/ r = ""
    \/ Ch(r, 1) = "\n"
    \/ /\ Len(r) >= 5
       /\ lower(SubSeq(r, 1, 5)) = " date"
       /\ (Len(r) = 5 \/ Ch(r, 6) \notin WORDCH)

\* C8: when the cleaned text is a Patient/Name label, a name candidate on the
\* same line and then a Date label or the end of the line, get_name() returns
\* exactly the candidate: nothing of the Date label, nothing of later lines.
C8_NameCandidate ==
    call = "get_name" =>
        \A i \in 1..Len(parser.text), j \in 1..Len(parser.text) :
            (/\ i < j
             /\ SubSeq(parser.text, 1, i) \in NameLabelForms
             /\ IsNameCandidate(SubSeq(parser.text, i + 1, j))
             /\ IsNameEnding(SubSeq(parser.text, j + 1, Len(parser.text))))
            => ret = Some(SubSeq(parser.text, i + 1, j))

\* the text has the word w in it, in any case
ContainsCI(t, w) ==
    \E k \in 1..(Len(t) - Len(w) + 1) : lower(SubSeq(t, k, k + Len(w) - 1)) = w

\* C10: the doctor name is absent whenever the cleaned text has no Dr.,
\* Doctor or Physician label, whatever Patient/Name labels or name-like
\* lines it has.
C10_DoctorIndependent ==
    (/\ call = "get_name_doctor"
     /\ ~ContainsCI(parser.text, "dr")
     /\ ~ContainsCI(parser.text, "doctor")
     /\ ~ContainsCI(parser.text, "physician"))
    => ret = None

(***************************************************************************)
(* Dates: PatientDetails._try_parse_date(raw)                              *)
(***************************************************************************)
MaxDay == 32
MaxMonth == 13
\* the decimal numeral of n
RECURSIVE DecimalString(_)
DecimalString(n) ==
    IF n < 10 THEN Ch(DigitChars, n + 1)
    ELSE DecimalString(n \div 10) \o Ch(DigitChars, (n % 10) + 1)
\* the numerals of the numbers N, those below 10 also with a leading zero
Numerals(N) ==
    {DecimalString(n) : n \in N} \cup {"0" \o DecimalString(n) : n \in {m \in N : m < 10}}
DayStrings == Numerals({0, 1, 9} \cup 28..MaxDay)
MonthStrings == Numerals({0, 1, 2, 9} \cup 11..MaxMonth)
MonthWords == {"Feb", "feb", "February", "Apr", "May", "Sept"}
YearStrings == {"2024", "2022", "1900", "2100", "24", "69", "68", "0000", "0001"}
OtherDateStrings ==
    {"", " ", "2022", "x2022", "in 1999 or 2001", "1899", "12345", " 29/02/2024 ",
     "29/02/2024x", "Date: 2022.", "wfil/2022", "2024-02- 9", "Feb  9, 2024"}
DateStrings ==
    {d \o a \o m \o b \o y :
        d \in DayStrings, a \in {"/", "-"}, m \in MonthStrings, b \in {"/", "-"},
        y \in YearStrings}
    \cup {y \o a \o m \o b \o d :
        d \in DayStrings, a \in {"/", "-"}, m \in MonthStrings, b \in {"/", "-"},
        y \in YearStrings}
    \cup {d \o a \o m \o a \o y :
        d \in DayStrings, a \in {" ", "  "}, m \in MonthWords, y \in YearStrings}
    \cup {m \o " " \o d \o a \o y :
        d \in DayStrings, a \in {", ", ",", " , "}, m \in MonthWords, y \in YearStrings}
    \cup OtherDateStrings
DateInputs == {PyStr(t) : t \in DateStrings}

InitDate == Start(DateInputs)
NextDate == TryParseDate
SpecDate == InitDate /\ [][NextDate]_vars

\* the calendar: the days of month m of year y
CalendarDays(y, m) ==
    IF m = 2 /\ (y % 400 = 0 \/ (y % 4 = 0 /\ y % 100 # 0)) THEN 29
    ELSE <<31, 28, 31, 30, 31, 30, 31, 31, 30, 31, 30, 31>>[m]
AllDigits(s) == \A k \in 1..Len(s) : Ch(s, k) \in DIGIT
\* s has the form YYYY-MM-DD and names a day of the calendar
IsIsoDate(s) ==
    /\ Len(s) = 10
    /\ Ch(s, 5) = "-" /\ Ch(s, 8) = "-"
    /\ AllDigits(SubSeq(s, 1, 4)) /\ AllDigits(SubSeq(s, 6, 7)) /\ AllDigits(SubSeq(s, 9, 10))
    /\ Decimal(SubSeq(s, 1, 4)) >= 1
    /\ Decimal(SubSeq(s, 6, 7)) \in 1..12
    /\ Decimal(SubSeq(s, 9, 10)) \in
           1..CalendarDays(Decimal(SubSeq(s, 1, 4)), Decimal(SubSeq(s, 6, 7)))

RefDay(tok) ==
    IF \E n \in 1..31 : tok = DecimalString(n) \/ (n < 10 /\ tok \in {"0" \o DecimalString(n),
                                                                     " " \o DecimalString(n)})
    THEN Decimal(SubSeq(tok, IF Ch(tok, 1) = " " THEN 2 ELSE 1, Len(tok))) ELSE 0
\* a month token: 1..12, a single digit also after a zero
RefMonth(tok) ==
    IF \E n \in 1..12 : tok = DecimalString(n) \/ (n < 10 /\ tok = "0" \o DecimalString(n))
    THEN Decimal(tok) ELSE 0
\* a month name of the list names, in any case
RefMonthNamed(tok, names) ==
    IF \E i \in 1..12 : lower(names[i]) = lower(tok)
    THEN CHOOSE i \in 1..12 : lower(names[i]) = lower(tok) ELSE 0
\* a year token of four digits; of two digits, 00..68 are 2000..2068 and
\* 69..99 are 1969..1999
RefYear4(tok) == IF Len(tok) = 4 /\ AllDigits(tok) THEN Decimal(tok) ELSE 0
RefYear2(tok) ==
    IF Len(tok) = 2 /\ AllDigits(tok)
    THEN (IF Decimal(tok) <= 68 THEN 2000 + Decimal(tok) ELSE 1900 + Decimal(tok))
    ELSE 0
ZeroPadded(s, w) == SubSeq("0000", 1, w - Len(s)) \o s
\* the ISO form of day d of month m of year y, None when a token was not
\* one (0) or the calendar has no such day
RefIso(y, m, d) ==
    IF y < 1 \/ m < 1 \/ d < 1 \/ d > CalendarDays(y, m) THEN None
    ELSE Some(ZeroPadded(DecimalString(y), 4) \o "-" \o ZeroPadded(DecimalString(m), 2)
              \o "-" \o ZeroPadded(DecimalString(d), 2))
\* the k-th format on the trimmed string t
RefFormat(t, k) ==
    LET sl == split(t, "/")
        da == split(t, "-")
        ws == split_ws(t)
        day2 == IF Len(ws) = 3 /\ Len(ws[2]) >= 2 /\ Ch(ws[2], Len(ws[2])) = ","
                THEN RefDay(SubSeq(ws[2], 1, Len(ws[2]) - 1)) ELSE 0
    IN  CASE k = 1 -> IF Len(sl) = 3
                      THEN RefIso(RefYear4(sl[3]), RefMonth(sl[2]), RefDay(sl[1])) ELSE None
          [] k = 2 -> IF Len(da) = 3
                      THEN RefIso(RefYear4(da[3]), RefMonth(da[2]), RefDay(da[1])) ELSE None
          [] k = 3 -> IF Len(sl) = 3
                      THEN RefIso(RefYear2(sl[3]), RefMonth(sl[2]), RefDay(sl[1])) ELSE None
          [] k = 4 -> IF Len(da) = 3
                      THEN RefIso(RefYear2(da[3]), RefMonth(da[2]), RefDay(da[1])) ELSE None
          [] k = 5 -> IF Len(da) = 3
                      THEN RefIso(RefYear4(da[1]), RefMonth(da[2]), RefDay(da[3])) ELSE None
          [] k = 6 -> IF Len(ws) = 3
                      THEN RefIso(RefYear4(ws[3]), RefMonthNamed(ws[2], MonthAbbr),
                                  RefDay(ws[1])) ELSE None
          [] k = 7 -> IF Len(ws) = 3
                      THEN RefIso(RefYear4(ws[3]), RefMonthNamed(ws[2], MonthFull),
                                  RefDay(ws[1])) ELSE None
          [] k = 8 -> IF Len(ws) = 3
                      THEN RefIso(RefYear4(ws[3]), RefMonthNamed(ws[1], MonthAbbr), day2)
                      ELSE None
          [] k = 9 -> IF Len(ws) = 3
                      THEN RefIso(RefYear4(ws[3]), RefMonthNamed(ws[1], MonthFull), day2)
                      ELSE None
\* the positions of t where a year 1900..2099 stands as a number of its own
RefYears(t) ==
    {i \in 1..(Len(t) - 3) :
        /\ SubSeq(t, i, i + 1) \in {"19", "20"}
        /\ AllDigits(SubSeq(t, i + 2, i + 3))
        /\ (i = 1 \/ Ch(t, i - 1) \notin WORDCH)
        /\ (i + 3 = Len(t) \/ Ch(t, i + 4) \notin WORDCH)}
Trimmed(s) ==
    IF \A k \in 1..Len(s) : Ch(s, k) \in SPACE THEN ""
    ELSE SubSeq(s, CHOOSE a \in 1..Len(s) : Ch(s, a) \notin SPACE
                                            /\ \A k \in 1..(a - 1) : Ch(s, k) \in SPACE,
                   CHOOSE b \in 1..Len(s) : Ch(s, b) \notin SPACE
                                            /\ \A k \in (b + 1)..Len(s) : Ch(s, k) \in SPACE)
RefDate(raw) ==
    LET t == Trimmed(raw)
        ok == {k \in 1..9 : RefFormat(t, k) # None}
    IN  IF ok # {} THEN RefFormat(t, CHOOSE k \in ok : \A j \in ok : k <= j)
        ELSE IF RefYears(t) # {}
             THEN Some(SubSeq(t, CHOOSE i \in RefYears(t) : \A j \in RefYears(t) : i <= j,
                                 (CHOOSE i \in RefYears(t) : \A j \in RefYears(t) : i <= j) + 3)
                       \o "-01-01")
        ELSE None

MaxPatientFrags == 3
PatientNameFrags == {" Al", " Date", " date", " ", "  ", "Dated", "s"}
\* the names: a first name and at most n fragments after it
PatientNames(n) == {"Bob" \o t : t \in Texts(PatientNameFrags, n)}
RefillValues ==
    {PyInt(0), PyInt(2), PyInt(0 - 3), PyStr("2"), PyStr(" 7 "), PyStr("-4"),
     PyStr("abc"), PyStr(""), PyNone}
PatientInputs ==
    {[patient_name |-> Some(n)] : n \in PatientNames(MaxPatientFrags)}
    \cup {[name |-> Some(n)] : n \in PatientNames(MaxPatientFrags - 1)}
    \cup {[refills |-> v] : v \in RefillValues}
    \cup {[name |-> Some("Al"), refill |-> v] : v \in RefillValues}
    \cup {EmptyDict}

InitPatient == Start(PatientInputs)
NextPatient == FromExtractor \/ ToModel \/ ToDict
SpecPatient == InitPatient /\ [][NextPatient]_vars

\* the value under the refills or the refill key, None when there is none
RefillsSupplied(e) ==
    IF "refills" \in DOMAIN e THEN e.refills
    ELSE IF "refill" \in DOMAIN e THEN e.refill ELSE PyNone
\* an integer, or a string that is a decimal numeral with an optional sign
\* and blanks around it
IsIntegerLike(v) ==
    \/ v.kind = "int"
    \/ /\ v.kind = "str"
       /\ Trimmed(v.s) # ""
       /\ AllDigits(SubSeq(Trimmed(v.s),
                           IF Ch(Trimmed(v.s), 1) \in {"+", "-"} THEN 2 ELSE 1,
                           Len(Trimmed(v.s))))
       /\ Trimmed(v.s) \notin {"+", "-"}

\* C5: whatever value stands under the refills/refill key, from_extractor
\* followed by to_dict does not raise and gives refills as a non-negative
\* integer, 0 when the value cannot be coerced to an integer.
C5_RefillsCoerced ==
    /\ call = "from_extractor" => ret = None
    /\ call = "to_dict" =>
          /\ ret.refills \in Nat
          /\ ~IsIntegerLike(RefillsSupplied(input)) => ret.refills = 0

\* the name under the patient_name or the name key
NameSupplied(e) ==
    IF "patient_name" \in DOMAIN e THEN e.patient_name[1] ELSE e.name[1]
\* whitespace collapsed and trimmed
Collapsed(s) == join(" ", split_ws(s))
\* the name ends in a Date token of its own
HasTrailingDate(c) ==
    lower(c) = "date" \/ (Len(c) > 5 /\ lower(SubSeq(c, Len(c) - 4, Len(c))) = " date")
\* what the claim expects of the name n
ExpectedPatientName(n) ==
    IF HasTrailingDate(Collapsed(n))
    THEN Collapsed(SubSeq(Collapsed(n), 1, Len(Collapsed(n)) - 4))
    ELSE Collapsed(n)

\* C9: normalization strips a trailing Date token from patient_name, changes
\* a name without one only by collapsing and trimming whitespace, and
\* to_model() carries the same patient_name as the object (for a name that
\* is more than blanks or the Date token alone).
C9_TrailingDate ==
    (/\ call = "to_model"
     /\ DOMAIN input \cap {"patient_name", "name"} # {}
     /\ lower(Collapsed(NameSupplied(input))) \notin {"", "date"})
    => /\ patient.patient_name = Some(ExpectedPatientName(NameSupplied(input)))
       /\ ret.patient_name = patient.patient_name

(***************************************************************************)
(* Medicines: PrescriptionParser(text).get_medicines()                      *)
(***************************************************************************)
MaxMedLines == 3
MedLines ==
    {"Pred 5 mg", "pred 5 MG", "PRED 5 mg daily", "Pred 10 mg", "Lialda", "LIALDA - use"}
MedInputs == {PyStr(t) : t \in TextsOfLines(MedLines, MaxMedLines)}

InitMeds == Start(MedInputs)
NextMeds == Construct \/ GetMedicines
SpecMeds == InitMeds /\ [][NextMeds]_vars

\* the (lowercased name, lowercased strength) pair of an entry
DedupKey(m) == <<lower(m.name), lower(m.strength)>>
\* the positions of the entries of D that no earlier entry shares the key of
FirstPositions(D) ==
    {i \in 1..Len(D) : \A j \in 1..(i - 1) : DedupKey(D[j]) # DedupKey(D[i])}
\* D with every later duplicate removed
FirstOccurrences(D) ==
    [k \in 1..Cardinality(FirstPositions(D)) |-> D[Nth(FirstPositions(D), k)]]

\* C3: get_medicines returns no two entries with the same (lowercased name,
\* lowercased strength) pair: it is the list of discovered matches with
\* every later duplicate removed, the first occurrences in discovery order.
C3_Dedup ==
    call = "get_medicines" =>
        /\ \A i \in 1..Len(ret), j \in 1..Len(ret) :
               i # j => DedupKey(ret[i]) # DedupKey(ret[j])
        /\ ret = FirstOccurrences(discovered_meds(parser.lines, 1))
\* three matches, the second a duplicate of the first in another case
C3_Witness ==
    /\ call = "get_medicines"
    /\ Len(discovered_meds(parser.lines, 1)) = 3
    /\ Len(ret) = 2
    /\ discovered_meds(parser.lines, 1)[2].name # ret[1].name
    /\ DedupKey(discovered_meds(parser.lines, 1)[2]) = DedupKey(ret[1])
    /\ ret[2] = discovered_meds(parser.lines, 1)[3]

(***************************************************************************)
(* Extraction: DocumentExtractor().extract_from_text(text)                  *)
(***************************************************************************)
MaxExtractLines == 2
ExtractLines == {"Name: Al Bo Date: 1/2/2022", "Pred 5 mg daily", "Refill: 2", "Dr. Al"}
ExtractTexts ==
    {PyStr(t) : t \in TextsOfLines(ExtractLines, MaxExtractLines)}
    \cup {PyNone, PyBytes("Refill: 2"), PyInt(7)}
\* what the function fallback finds in the environment
FallbackEntities ==
    {[name |-> Some("Bob Date"), date |-> Some("wfil/2022"), refill |-> PyStr("2")],
     [patient_name |-> Some("Al"), refills |-> PyStr("abc")],
     EmptyDict,
     Raised("ImportError")}
ExtractInputs ==
    {[text |-> t, env |-> [parser_class |-> pc, patient_class |-> dc, extract_entities |-> f]] :
        t \in ExtractTexts, pc \in BOOLEAN, dc \in BOOLEAN, f \in FallbackEntities}

Init == Start(ExtractInputs)
Next == ExtractFromText
Spec == Init /\ [][Next]_vars

Elements(seq) == {seq[i] : i \in 1..Len(seq)}
\* the parser stage raised: the class is there and its call raises
ParserRaises(in) == in.env.parser_class /\ IsRaised(parse_call(in.text))
\* the normalizer stage raised on the entities e
NormalizerRaises(in, e) == in.env.patient_class /\ IsRaised(from_extractor(e))

\* C1: extract_from_text returns, for every text, a mapping with the keys
\* entities, patient, warnings and parsed_date; an exception of the parser
\* stage or of the normalizer stage is a warning string of the result.
C1_NeverRaises ==
    call = "extract_from_text" =>
        /\ ~IsRaised(ret)
        /\ DOMAIN ret = {"entities", "patient", "warnings", "parsed_date"}
        /\ ~IsRaised(ret.entities)
        /\ ParserRaises(input) => WARN_PARSER \in Elements(ret.warnings)
        /\ NormalizerRaises(input, ret.entities) =>
               WARN_PATIENT \in Elements(ret.warnings) /\ ret.patient = NoObject
\* the text is bytes, on which the parser raises: the result has no
\* entities and the parser's warning
C1_Witness ==
    /\ call = "extract_from_text"
    /\ input.text = PyBytes("Refill: 2")
    /\ ParserRaises(input)
    /\ ret.entities = EmptyDict
    /\ ret.warnings = <<WARN_PARSER>>

(***************************************************************************)
(* Pages: PrescriptionParser(text).parse() on the text of ocr_pages         *)
(***************************************************************************)
MaxPageLines == 3
PageLines ==
    {"===== PAGE 1 =====", "===== PAGE 2 =====", "Pred 5 mg", "Name: Al Bo",
     "Address: 5 Main St", "take daily"}
PageInputs == {PyStr(t) : t \in TextsOfLines(PageLines, MaxPageLines)}

InitPages == Start(PageInputs)
NextPages == Construct \/ Parse
SpecPages == InitPages /\ [][NextPages]_vars

\* the Optional[str] v has nothing of a page-separator line in it
NoPageText(v) == v = None \/ (~ContainsCI(v[1], "page") /\ ~ContainsCI(v[1], "="))

\* C11: no field of the record that parse() returns (doctor_name,
\* patient_name, date, patient_address, the name, strength and directions of
\* a medicine) has text of a page-separator line '===== PAGE <n> =====' in it.
C11_PageLinesInert ==
    call = "parse" =>
        /\ NoPageText(ret.doctor_name) /\ NoPageText(ret.patient_name)
        /\ NoPageText(ret.date) /\ NoPageText(ret.patient_address)
        /\ \A i \in 1..Len(ret.medicines) :
               /\ NoPageText(Some(ret.medicines[i].name))
               /\ NoPageText(Some(ret.medicines[i].strength))
               /\ NoPageText(Some(ret.medicines[i].directions))

(***************************************************************************)
(* Medicine names: get_medicines() on one line of name characters           *)
(***************************************************************************)
MaxMedNameFrags == 4
MedNameFrags == {"O", "'", "N", "ab", " ", "5", "mg", "-"}
MedNameInputs == {PyStr(t) : t \in Texts(MedNameFrags, MaxMedNameFrags)}

InitMedNames == Start(MedNameInputs)
NextMedNames == Construct \/ GetMedicines
SpecMedNames == InitMedNames /\ [][NextMedNames]_vars

\* the number of alphabetic characters of s
LetterCount(s) == Cardinality({k \in 1..Len(s) : Ch(s, k) \in ALPHA})

\* C12: every medicine that get_medicines returns, from the name + strength
\* match or from the name-only match, has a name with at least 3 alphabetic
\* characters.
C12_ThreeLetters ==
    call = "get_medicines" => \A i \in 1..Len(ret) : LetterCount(ret[i].name) >= 3

(***************************************************************************)
(* Faults: parse() while one field extractor raises                         *)
(***************************************************************************)
FaultInputs == {PyStr(t) : t \in TextsOfLines(ExtractLines, MaxExtractLines)}

InitFaults == Start(FaultInputs)
NextFaults == Construct \/ ParseFailing
SpecFaults == InitFaults /\ [][NextFaults]_vars

\* C13: when the extractor of one field fails during parse(), parse() still
\* returns the record: the other fields have the values their extractors
\* give, the failing field is absent or empty, and a warning is appended.
C13_FaultIsolated ==
    call = "parse_failing" =>
        /\ ~IsRaised(ret.result)
        /\ \A k \in ParseFields \ {ret.fault} : ret.result[k] = parse(parser)[k]
        /\ ret.result[ret.fault] \in {None, PyInt(0)}
        /\ ret.result.warnings # <<>>

(***************************************************************************)
(* Concurrent invocations of extract_from_text                             *)
(***************************************************************************)
NumThreads == 2
ThreadTexts == {PyStr("Refill: 2\n"), PyStr(""), PyBytes("Refill: 2")}
ThreadEnvs ==
    {[parser_class |-> TRUE, patient_class |-> TRUE, extract_entities |-> EmptyDict],
     [parser_class |-> FALSE, patient_class |-> TRUE,
      extract_entities |-> [patient_name |-> Some("Al"), refills |-> PyStr("abc")]]}
\* the arguments of the invocations, the extractor each is called on, and
\* the environment they share
ThreadInputs ==
    {[texts |-> x, selves |-> d, env |-> e] :
        x \in [1..NumThreads -> ThreadTexts],
        d \in [1..NumThreads -> 1..NumThreads],
        e \in ThreadEnvs}

\* every extractor is constructed (line 40: self.warnings = []) and every
\* invocation is about to run
InitThreads ==
    /\ input \in ThreadInputs
    /\ parser = NoObject
    /\ patient = NoObject
    /\ warnings = <<>>
    /\ call = "start"
    /\ ret = None
    /\ threads = [t \in 1..NumThreads |->
                     [self |-> input.selves[t], text |-> input.texts[t], pc |-> "reset",
                      entities |-> EmptyDict, patient |-> NoObject,
                      parsed_date |-> None, result |-> None]]
    /\ heap = [lists    |-> [d \in 1..NumThreads |-> <<>>],
               warnings |-> [d \in 1..NumThreads |-> d]]
    /\ request = NoObject
NextThreads ==
    \E t \in 1..NumThreads :
        ResetWarnings(t) \/ ParserStage(t) \/ NormalizerStage(t) \/ Return(t)
SpecThreads == InitThreads /\ [][NextThreads]_vars

\* C14: once every invocation has returned, each holds the result it gives
\* when it runs alone, whatever the interleaving and whether or not the
\* invocations share an extractor
C14_Isolated ==
    (\A t \in 1..NumThreads : threads[t].pc = "done")
        => \A t \in 1..NumThreads :
               result_of(t) = extract_from_text(threads[t].text, input.env)

(***************************************************************************)
(* parse on the empty text and on the placeholder texts of app.py          *)
(***************************************************************************)
MaxPlaceholderFrags == 2
OCR_FAILED == "### OCR_FAILED ###"
NO_PAGES == "### NO_PAGES ###"
PlaceholderFrags == {OCR_FAILED, NO_PAGES, "\n", " ", "Refill: 2", "Al Bo", "Pred 5 mg"}
PlaceholderInputs == {PyStr(t) : t \in Texts(PlaceholderFrags, MaxPlaceholderFrags)}

InitPlaceholders == Start(PlaceholderInputs)
NextPlaceholders == Construct \/ Parse
SpecPlaceholders == InitPlaceholders /\ [][NextPlaceholders]_vars

\* the empty text, and the placeholders as named and as app.py writes them
PlaceholderTexts == {"", OCR_FAILED, NO_PAGES, OCR_FAILED \o "\n", NO_PAGES \o "\n"}
AllDefault ==
    [doctor_name |-> None, patient_name |-> None, date |-> None,
     patient_address |-> None, medicines |-> <<>>, refills |-> PyInt(0),
     warnings |-> <<>>]

\* C15: on the empty text and on each placeholder text the constructor and
\* parse() raise nothing, and parse() returns the all-default record: the
\* four text fields absent, no medicine, refills 0
C15_PlaceholderDefaults ==
    input.s \in PlaceholderTexts =>
        /\ call = "PrescriptionParser" => ~IsRaised(ret)
        /\ call = "parse" => ret = AllDefault
C15_Witness ==
    /\ call = "parse"
    /\ input.s = OCR_FAILED \o "\n"
    /\ ret = AllDefault

(***************************************************************************)
(* Addresses: get_address on texts with and without an Address label line  *)
(***************************************************************************)
MaxAddressLines == 3
AddressLines ==
    {"Address:", "Address: 5 Main St", "Address: 5 Main St |", "Address: 5 Main St .",
     "Oak Rd", "Pred 5 mg daily", "Refill: 2", "Name: Al Bo"}
AddressInputs == {PyStr(t) : t \in TextsOfLines(AddressLines, MaxAddressLines)}

InitAddress == Start(AddressInputs)
NextAddress == Construct \/ GetAddress
SpecAddress == InitAddress /\ [][NextAddress]_vars

\* the first Address label line, 0 when there is none
LabelIndex(lines) ==
    LET I == {i \in 1..Len(lines) : Search(RE_ADDRESS_LABEL, lines[i], TRUE).ok}
    IN IF I = {} THEN 0 ELSE CHOOSE i \in I : \A k \in I : i <= k
\* the first terminator line after line i, Len(lines) + 1 when there is none
TerminatorIndex(lines, i) ==
    LET J == {j \in (i + 1)..Len(lines) : address_terminator(lines[j])}
    IN IF J = {} THEN Len(lines) + 1 ELSE CHOOSE j \in J : \A k \in J : j <= k
\* the remainder of the label line (when it is not blank), then the lines
\* before the terminator line
AddressFragments(lines) ==
    LET i == LabelIndex(lines)
        part == strip(split_last(RE_ADDRESS_SPLIT, lines[i], TRUE, 1))
    IN (IF part = "" THEN <<>> ELSE <<part>>)
       \o SubSeq(lines, i + 1, TerminatorIndex(lines, i) - 1)
\* the fragments joined and tidied as an address, absent when there is none
ExpectedAddress(lines) ==
    LET frags == AddressFragments(lines)
    IN IF frags = <<>> THEN None
       ELSE Some(rstrip(strip(Sub(RE_SPACE_COMMA, Text(","), join(" ", frags), FALSE)),
                        {".", ","}))

\* C16: with an Address label line, the address is made of the remainder
\* of that line and of the lines after it up to, and without, the first
\* terminator line; nothing of the terminator line or of a later line is
\* in it
C16_AddressLines ==
    (call = "get_address" /\ LabelIndex(parser.lines) > 0)
        => ret = ExpectedAddress(parser.lines)

\* whitespace collapsed, none at either end, and no '.', ',' or '|' last
TidyAddress(a) ==
    /\ a = Collapsed(a)
    /\ a = "" \/ Ch(a, Len(a)) \notin {".", ",", "|"}

\* C17: an address that get_address returns has its whitespace collapsed,
\* has none at either end, and does not end with '.', ',' or '|'
C17_AddressTidy == (call = "get_address" /\ ret # None) => TidyAddress(ret[1])

(***************************************************************************)
(* Label lines: get_medicines on texts made of label lines                 *)
(***************************************************************************)
MaxLabelLines == 2
LabelLines ==
    {"Refill: 2", "Address: 5 Main St", "Phone: 555", "Date: 2022", "Name: Al Bo",
     "Page 1", "Directions: take Pred", "Pred 5 mg"}
LabelInputs == {PyStr(t) : t \in TextsOfLines(LabelLines, MaxLabelLines)}

InitLabels == Start(LabelInputs)
NextLabels == Construct \/ GetMedicines
SpecLabels == InitLabels /\ [][NextLabels]_vars

\* a line that begins with the word Address, Name, Date, Phone, Refill,
\* Page or Directions
PureLabel(ln) == MatchAt(RE_LABEL_LINE, ln, TRUE, 1).ok

\* C18: a text all of whose lines are label lines, or begin with
\* Directions, gives no medicine
C18_NoLabelMedicine ==
    (call = "get_medicines" /\ \A i \in 1..Len(parser.lines) : PureLabel(parser.lines[i]))
        => ret = <<>>

(***************************************************************************)
(* Years: get_date on texts with Date labels, bare years and composite     *)
(* dates                                                                   *)
(***************************************************************************)
MaxYearFrags == 3
YearFrags ==
    {"Date: ", "Date", "Update ", "2022", "1999", "20221", "1/2/2023", " ", "\n",
     "xxxxxxxxxxxxxxxxxxxxxxxxx "}
YearInputs == {PyStr(t) : t \in Texts(YearFrags, MaxYearFrags)}

InitYear == Start(YearInputs)
NextYear == Construct \/ GetDate
SpecYear == InitYear /\ [][NextYear]_vars

\* four digits at p that make a year 1900..2099
IsYearAt(t, p) ==
    /\ p + 3 <= Len(t)
    /\ SubSeq(t, p, p + 1) \in {"19", "20"}
    /\ Ch(t, p + 2) \in DIGIT
    /\ Ch(t, p + 3) \in DIGIT
\* a bare year at p: no word character of the text follows it, and none
\* precedes it unless p is lo, where what is searched begins
BareYearAt(t, p, lo) ==
    /\ IsYearAt(t, p)
    /\ p = lo \/ Ch(t, p - 1) \notin WORDCH
    /\ p + 4 > Len(t) \/ Ch(t, p + 4) \notin WORDCH
\* the first bare year of t that lies within lo..hi
FirstYear(t, lo, hi) ==
    LET P == {p \in lo..(hi - 3) : BareYearAt(t, p, lo)}
    IN IF P = {} THEN None
       ELSE LET p == CHOOSE q \in P : \A k \in P : q <= k IN Some(SubSeq(t, p, p + 3))
\* the strategies in their order: the leftmost composite date, the first
\* bare year in what follows the first Date label, the first bare year
ExpectedDate(t) ==
    LET m == Search(_DATE_RE, t, TRUE)
        m2 == Search(RE_DATE_LABEL, t, TRUE)
        y == IF m2.ok THEN FirstYear(t, m2.g[1][1], m2.g[1][2] - 1) ELSE None
    IN IF m.ok THEN Some(Group(t, m, 1))
       ELSE IF y # None THEN y
       ELSE FirstYear(t, 1, Len(t))

\* C19: get_date returns the leftmost composite date if there is one,
\* else the first bare year 1900..2099 within the 30 characters after the
\* first Date label, else the first bare year anywhere, as it stands in
\* the text; it is absent exactly when the text has none of them
C19_DateStrategies == call = "get_date" => ret = ExpectedDate(parser.text)

(***************************************************************************)
(* Name lines: get_name() on texts without a Patient/Name label match      *)
(***************************************************************************)
MaxNameLines == 3
NameLines ==
    {"A Bob", "Al Bo", "Cy O'Di", "Dr Al Bo", "Al", "Al Bo Cy Di Ey", "Name's Al"}
NameLineInputs == {PyStr(t) : t \in TextsOfLines(NameLines, MaxNameLines)}

InitNameLines == Start(NameLineInputs)
NextNameLines == Construct \/ GetPatientName
SpecNameLines == InitNameLines /\ [][NextNameLines]_vars

ReservedWords ==
    {"address", "date", "phone", "dr", "physician", "directions", "refill", "amount",
     "page"}
\* the word w stands in ln at k, in any case, with no word character
\* next to it
WordStandsAt(ln, w, k) ==
    /\ k + Len(w) - 1 <= Len(ln)
    /\ lower(SubSeq(ln, k, k + Len(w) - 1)) = w
    /\ k = 1 \/ Ch(ln, k - 1) \notin WORDCH
    /\ k + Len(w) > Len(ln) \/ Ch(ln, k + Len(w)) \notin WORDCH
HasReservedWord(ln) == \E w \in ReservedWords : \E k \in 1..Len(ln) : WordStandsAt(ln, w, k)
\* a token that begins with an uppercase letter
CapitalizedToken(w) == w # "" /\ Ch(w, 1) \in UPPER
\* an uppercase letter, then one or more letters, apostrophes, hyphens or
\* periods
NameToken(w) ==
    /\ Len(w) >= 2
    /\ Ch(w, 1) \in UPPER
    /\ \A k \in 2..Len(w) : Ch(w, k) \in ALPHA \cup {"'", "-", "."}
\* the line without a leading Name or Patient, in any case, and the
\* colons, semicolons, hyphens and whitespace after it
LabelSkip(ln, k) ==
    LET P == {p \in k..(Len(ln) + 1) :
                 \A j \in k..(p - 1) : Ch(ln, j) \in SPACE \cup {":", ";", "-"}}
    IN strip(SubSeq(ln, CHOOSE p \in P : \A q \in P : q <= p, Len(ln)))
StripLabel(ln) ==
    IF startswith(lower(ln), "name") THEN LabelSkip(ln, 5)
    ELSE IF startswith(lower(ln), "patient") THEN LabelSkip(ln, 8)
    ELSE ln
\* what of the line is judged: the line as it stands, or (strict) the line
\* without its leading label
Candidate(ln, strict) == IF strict THEN StripLabel(ln) ELSE ln
\* a line without a reserved word whose 2 to 4 tokens are name tokens
\* (strict) or begin with an uppercase letter
QualifyingLine(ln, strict) ==
    LET words == split_ws(Candidate(ln, strict))
    IN /\ ~HasReservedWord(ln)
       /\ Len(words) >= 2 /\ Len(words) <= 4
       /\ \A i \in 1..Len(words) :
              IF strict THEN NameToken(words[i]) ELSE CapitalizedToken(words[i])
QualifyingIndexes(lines, strict) ==
    {i \in 1..Len(lines) : QualifyingLine(lines[i], strict)}
\* the first qualifying line
FirstQualifying(lines, strict) ==
    LET I == QualifyingIndexes(lines, strict)
    IN Candidate(lines[CHOOSE i \in I : \A k \in I : i <= k], strict)
\* the Patient/Name label pattern of get_name matches nowhere
NoNameLabel(self) == ~Search(RE_PATIENT, self.text, TRUE).ok

\* C20 as stated: without a Patient/Name label match, get_name() returns
\* the first line without a reserved word that has 2 to 4 tokens each
\* beginning with an uppercase letter
C20_FirstCapitalizedLine ==
    (/\ call = "get_name"
     /\ NoNameLabel(parser)
     /\ QualifyingIndexes(parser.lines, FALSE) # {})
        => ret = Some(FirstQualifying(parser.lines, FALSE))

\* C20 amended: without a Patient/Name label match, get_name() returns the
\* first line without a reserved word that, a leading Name or Patient
\* label set aside, has 2 to 4 tokens each made of an uppercase letter
\* followed by one or more letters, apostrophes, hyphens or periods; a
\* later such line never wins over an earlier one
C20_FirstNameLine ==
    (/\ call = "get_name"
     /\ NoNameLabel(parser)
     /\ QualifyingIndexes(parser.lines, TRUE) # {})
        => ret = Some(FirstQualifying(parser.lines, TRUE))
\* a line of name tokens is returned after a line that only begins its
\* tokens with uppercase letters, and before a later line of name tokens
C20_Witness ==
    /\ call = "get_name"
    /\ NoNameLabel(parser)
    /\ Len(parser.lines) = 3
    /\ QualifyingIndexes(parser.lines, TRUE) = {2, 3}
    /\ 1 \in QualifyingIndexes(parser.lines, FALSE)
    /\ parser.lines[2] # parser.lines[3]
    /\ ret = Some(parser.lines[2])

(***************************************************************************)
(* Parsed dates: extract_from_text on texts with dates, with both classes  *)
(* imported                                                                *)
(***************************************************************************)
MaxParsedLines == 2
ParsedLines ==
    {"Date: 1/2/2022", "Date: 3 Jan 22", "Date: 13/13/13", "Date: 2022",
     "Date: Jan 5, 2022", "Refill: 2", "Name: Al Bo"}
ParsedInputs ==
    {[text |-> PyStr(t),
      env  |-> [parser_class |-> TRUE, patient_class |-> TRUE, extract_entities |-> EmptyDict]] :
        t \in TextsOfLines(ParsedLines, MaxParsedLines)}

InitParsed == Start(ParsedInputs)
NextParsed == ExtractFromText
SpecParsed == InitParsed /\ [][NextParsed]_vars

\* C21: the parsed_date of the mapping extract_from_text returns is None
\* or a well-formed ISO YYYY-MM-DD date, never the date as it was found in
\* the text
C21_ParsedDateIso ==
    call = "extract_from_text" =>
        ret.parsed_date = None \/ IsIsoDate(ret.parsed_date[1])

\* C23: whenever the parser found a date in the text, the record made by
\* PatientDetails has a parsed_date: a present date always has a present
\* parsed_date
C23_DateParses ==
    (/\ call = "extract_from_text"
     /\ ret.patient # NoObject
     /\ ret.entities.date # None)
        => ret.patient.parsed_date # None

(***************************************************************************)
(* app.py: the /extract handler                                            *)
(***************************************************************************)
WARN_PDF == "PDF->image conversion failed (poppler may be missing). OCR skipped."
WARN_OCR == "OCR failed (tesseract may be missing). Using placeholder text."
WARN_NORMALIZE == "PatientDetails normalization failed."

\* an HTTPException, or the JSONResponse, that ends the request
HTTPException(status_code) == [status_code |-> status_code]
JSONResponse(status_code, content) == [status_code |-> status_code, content |-> content]

\* not file.filename or not file.filename.lower().endswith(".pdf")
not_pdf(filename) ==
    filename = "" \/ Len(filename) < 4
        \/ SubSeq(lower(filename), Len(filename) - 3, Len(filename)) # ".pdf"

\* ocr_pages: pages[i] is the text tesseract reads on page i
ocr_pages(pages) ==
    join("\n", [i \in 1..Len(pages) |->
                    "===== PAGE " \o DecimalString(i) \o " =====\n" \o pages[i] \o "\n"])

\* run_extractor_on_text in the environment env of the imports: every
\* exception is caught and gives {}
run_extractor_on_text(ocr_text, env) ==
    IF env.document_extractor
    THEN extract_from_text(PyStr(ocr_text), env).entities
    ELSE IF env.parser_class
    THEN Let(parse_call(PyStr(ocr_text)), LAMBDA r : IF IsRaised(r) THEN EmptyDict ELSE r)
    ELSE IF IsRaised(env.extract_entities) THEN EmptyDict
    ELSE env.extract_entities

\* the locals of the handler after lines 193-205
NewRequest ==
    [pc |-> "saved", pages |-> <<>>, ocr_text |-> "", entities |-> EmptyDict,
     patient |-> NoObject, warnings |-> <<>>, failed |-> {}, response |-> NoObject]
\* the request ended with the response r
ended(req, r) == [req EXCEPT !.pc = "done", !.response = r]

\* lines 211-214: the except clause of the conversion
pdf_except(req) ==
    [req EXCEPT !.pc = "pages", !.warnings = Append(@, WARN_PDF), !.failed = @ \cup {"pdf"}]
\* the except clause of the OCR without its warning
ocr_except_silent(req) ==
    [req EXCEPT !.pc = "text", !.ocr_text = OCR_FAILED \o "\n", !.failed = @ \cup {"ocr"}]
\* lines 221-225: the except clause of the OCR
ocr_except(req) ==
    [req EXCEPT !.pc = "text", !.warnings = Append(@, WARN_OCR),
                !.ocr_text = OCR_FAILED \o "\n", !.failed = @ \cup {"ocr"}]
\* lines 233-241: the normalization and its except clause
normalize_patient(req, env) ==
    IF ~env.patient_class THEN [req EXCEPT !.pc = "patient"]
    ELSE Let(from_extractor(req.entities),
             LAMBDA pd :
                 IF IsRaised(pd)
                 THEN [req EXCEPT !.pc = "patient", !.warnings = Append(@, WARN_NORMALIZE)]
                 ELSE [req EXCEPT !.pc = "patient", !.patient = to_model(pd)])

\* the texts a page may read as, and the pages a PDF may convert to
MaxPages == 2
PageTexts == {"Refill: 2", "Name: Al Bo Date: 1/2/2022"}
PageLists == UNION {[1..n -> PageTexts] : n \in 0..MaxPages}

\* lines 193-205: the file name is checked, the upload is read and written
\* to a temporary file; reading or writing may fail
Receive ==
    /\ request = NoObject
    /\ \E io \in {"ok", "raise"} :
           request' = IF not_pdf(input.filename) THEN ended(NewRequest, HTTPException(400))
                      ELSE IF io = "raise" THEN ended(NewRequest, HTTPException(500))
                      ELSE NewRequest
    /\ UNCHANGED <<input, parser, patient, warnings, call, ret, threads, heap>>

\* lines 208-214: pdf_to_images gives pages or raises
Rasterize ==
    /\ request # NoObject
    /\ request.pc = "saved"
    /\ \/ request' = pdf_except(request)
       \/ \E pages \in PageLists : request' = [request EXCEPT !.pc = "pages", !.pages = pages]
    /\ UNCHANGED <<input, parser, patient, warnings, call, ret, threads, heap>>

\* lines 217-227: ocr_pages gives the text or raises; without pages the
\* text is the placeholder
Ocr ==
    /\ request # NoObject
    /\ request.pc = "pages"
    /\ IF request.pages = <<>>
       THEN request' = [request EXCEPT !.pc = "text", !.ocr_text = NO_PAGES \o "\n"]
       ELSE \/ request' = ocr_except(request)
            \/ request' = [request EXCEPT !.pc = "text", !.ocr_text = ocr_pages(request.pages)]
    /\ UNCHANGED <<input, parser, patient, warnings, call, ret, threads, heap>>

\* line 230: entities = run_extractor_on_text(ocr_text) or {}
RunExtractor ==
    /\ request # NoObject
    /\ request.pc = "text"
    /\ request' = [request EXCEPT !.pc = "entities",
                                  !.entities = run_extractor_on_text(request.ocr_text, input.env)]
    /\ UNCHANGED <<input, parser, patient, warnings, call, ret, threads, heap>>

\* lines 233-241
NormalizePatient ==
    /\ request # NoObject
    /\ request.pc = "entities"
    /\ request' = normalize_patient(request, input.env)
    /\ UNCHANGED <<input, parser, patient, warnings, call, ret, threads, heap>>

\* lines 243-244: the 200 response
Respond ==
    /\ request # NoObject
    /\ request.pc = "patient"
    /\ request' = ended(request,
                        JSONResponse(200, [text     |-> request.ocr_text,
                                           entities |-> request.entities,
                                           patient  |-> request.patient,
                                           warnings |-> request.warnings]))
    /\ UNCHANGED <<input, parser, patient, warnings, call, ret, threads, heap>>

FileNames == {"rx.pdf", "RX.PDF", "rx.txt", ""}
HandlerEnvs ==
    {[document_extractor |-> de, parser_class |-> pc, patient_class |-> dc,
      extract_entities |-> f] :
        de \in BOOLEAN, pc \in BOOLEAN, dc \in BOOLEAN,
        f \in {[refills |-> PyStr("abc")], Raised("ImportError")}}
HandlerInputs == {[filename |-> n, env |-> e] : n \in FileNames, e \in HandlerEnvs}

InitHandler == Start(HandlerInputs)
NextHandler == Receive \/ Rasterize \/ Ocr \/ RunExtractor \/ NormalizePatient \/ Respond
SpecHandler == InitHandler /\ [][NextHandler]_vars

\* the conversion or the OCR of the request raised
AcquisitionFailed == request # NoObject /\ request.failed # {}

\* C22: a request whose PDF conversion or OCR raised is not aborted: it
\* has no response before its last step, and it ends with the 200 response
\* with the keys text, entities, patient and warnings, whose warnings hold
\* the warning of the failure, whose text is the placeholder of the failure
\* and whose entities are what the extractor gives on that text
C22_FailureNotFatal ==
    AcquisitionFailed =>
        /\ request.pc # "done" =>
            /\ request.response = NoObject
            /\ request.pc \in {"pages", "text", "entities", "patient"}
        /\ request.pc = "done" =>
            /\ request.response.status_code = 200
            /\ DOMAIN request.response.content = {"text", "entities", "patient", "warnings"}
            /\ "pdf" \in request.failed =>
                   /\ WARN_PDF \in Elements(request.response.content.warnings)
                   /\ strip(request.response.content.text) = NO_PAGES
            /\ "ocr" \in request.failed =>
                   /\ WARN_OCR \in Elements(request.response.content.warnings)
                   /\ strip(request.response.content.text) = OCR_FAILED
            /\ request.response.content.entities
                   = run_extractor_on_text(request.response.content.text, input.env)
\* the OCR raised, and the response is the 200 response with the
\* placeholder text, the warning and the all-default entities
C22_Witness ==
    /\ request # NoObject
    /\ request.pc = "done"
    /\ request.failed = {"ocr"}
    /\ request.response.status_code = 200
    /\ request.response.content.text = OCR_FAILED \o "\n"
    /\ request.response.content.warnings = <<WARN_OCR>>
    /\ request.response.content.entities = AllDefault

====
